---------------------------- MODULE Spec2Model ----------------------------
(***************************************************************************)
(* Model of the canvassing backend: the voter import job                   *)
(* (jobs/importVoters.ts, processImportJob) and the identity               *)
(* reconciliation engine of app.ts (merge alerts, merge-into).             *)
(*                                                                         *)
(* Values.  Every JavaScript / SQL value is a sequence of strings.  A text *)
(* is the sequence of its characters (<<"A","1">> is 'A1', <<>> is '').    *)
(* The non-text values are one-element sequences holding a token of more   *)
(* than one character, so they never collide with a text: Null, Undef,     *)
(* NaN, and the jittered placeholder coordinates.  Timestamps              *)
(* (created_at, updated_at, started_at) are not modelled.                  *)
(***************************************************************************)
EXTENDS Integers, Sequences, FiniteSets, Bags, TLC

Null  == <<"NULL">>
Undef == <<"UNDEF">>
NaN   == <<"NaN">>

\* JavaScript truthiness, for the values the model uses (texts, null, undefined).
Falsy(v) == v \in {Undef, Null, <<>>}

\* a || b
Or(a, b) == IF Falsy(a) THEN b ELSE a

\* a && b
And(a, b) == IF Falsy(a) THEN a ELSE b

\* row[k] of a row dictionary: undefined when the key is absent.
Get(row, k) == IF k \in DOMAIN row THEN row[k] ELSE Undef

IsSpace(c) == c \in {" ", "\t", "\r", "\n"}

IsDigit(c) == c \in {"0", "1", "2", "3", "4", "5", "6", "7", "8", "9"}

RECURSIVE TrimLeft(_)
TrimLeft(s) ==
    IF s = <<>> THEN <<>>
    ELSE IF IsSpace(Head(s)) THEN TrimLeft(Tail(s)) ELSE s

RECURSIVE TrimRight(_)
TrimRight(s) ==
    IF s = <<>> THEN <<>>
    ELSE IF IsSpace(s[Len(s)]) THEN TrimRight(SubSeq(s, 1, Len(s) - 1)) ELSE s

\* String(x).trim(); String(undefined) and String(null) are the texts
\* 'undefined' and 'null', which the callers never reach (they guard with ||).
Trim(s) == TrimRight(TrimLeft(s))

RECURSIVE StripZeros(_)
StripZeros(s) ==
    IF Len(s) > 1 /\ Head(s) = "0" THEN StripZeros(Tail(s)) ELSE s

\* Number(x) for a text x made of letters, digits and blanks: the integer
\* written by its digits (in canonical form), 0 for a blank text, else NaN.
NumberOf(s) ==
    LET t == Trim(s) IN
    IF t = <<>> THEN <<"0">>
    ELSE IF \A i \in 1..Len(t) : IsDigit(t[i]) THEN StripZeros(t)
    ELSE NaN

\* [a, b, ...].join(' ')
RECURSIVE JoinSpace(_)
JoinSpace(parts) ==
    IF parts = <<>> THEN <<>>
    ELSE IF Len(parts) = 1 THEN parts[1]
    ELSE parts[1] \o <<" ">> \o JoinSpace(Tail(parts))


---------------------------------------------------------------------------
(***************************************************************************)
(* The relational store.  A database is a record of tables; the state     *)
(* variables below hold the committed tables.  voters, interactions,       *)
(* walk_lists, list_members and alerts are sets of rows, import_jobs is a  *)
(* function from job id to row, platform_events is a sequence in insertion *)
(* order, and audit_logs is a bag of rows (created_at left out).           *)
(***************************************************************************)

\* merged_into_voter_id IS NULL (voter ids are 1, 2, ...).
NoVoter == 0

\* A NULL jsonb column (import_jobs.result): the empty function.
NoJson == <<>>

\* A uuid as a request spells it.  The store reads any spelling of a uuid
\* (upper or lower case hex) and writes the lower-case one; what is no uuid
\* it rejects.
UuidText(n) == [uuid |-> n, text |-> "lower"]

UpperText(n) == [uuid |-> n, text |-> "upper"]

Malformed == [uuid |-> 0, text |-> "malformed"]

\* $n::uuid
Uuid(t) == t.uuid

\* SQLSTATE 22P02 for a uuid parameter.
InvalidUuid == <<"22P02 invalid input syntax for type uuid">>

Max(S) == CHOOSE x \in S : \A y \in S : y <= x

\* uuid_generate_v4() / crypto.randomUUID(): an id no row of the table has.
NewId(rows) == IF rows = {} THEN 1 ELSE 1 + Max({r.id : r \in rows})

\* The columns an import upsert writes (VALUES list and DO UPDATE SET list).
MappedCols ==
    {"first_name", "middle_name", "last_name", "suffix", "age", "gender",
     "race", "party", "phone", "address", "unit", "city", "state", "zip",
     "geom_lat", "geom_lng"}

Unknown == <<"U", "n", "k", "n", "o", "w", "n">>

\* The placeholder coordinate base + Math.random() * 0.01, for a draw r.
Jittered(base, r) == <<base, r>>

\* const externalId = row.external_id || row.externalId
ExternalIdOf(row) == Or(Get(row, "external_id"), Get(row, "externalId"))

\* The skip test without the trim: only an absent or empty id is missing.
NoExternalIdValue(row) == Falsy(ExternalIdOf(row))

\* if (!externalId || String(externalId).trim() === '') -> skipped
MissingExternalId(row) ==
    Falsy(ExternalIdOf(row)) \/ Trim(ExternalIdOf(row)) = <<>>

\* [house number, fraction, direction, street name]
\*   .map(x => String(x || '').trim()).filter(x => x.length > 0).join(' ')
ComposedAddress(row) ==
    LET comps == << Get(row, "res_house_number"), Get(row, "res_house_fraction"),
                    Get(row, "res_street_direction"), Get(row, "res_street_name") >>
        trimmed == [i \in 1..4 |-> Trim(Or(comps[i], <<>>))]
    IN  JoinSpace(SelectSeq(trimmed, LAMBDA x : Len(x) > 0))

\* The parameter list of the INSERT ... ON CONFLICT statement for one row;
\* rlat and rlng are the two Math.random() draws.
VoterParams(orgId, row, rlat, rlng) ==
    [ org_id      |-> orgId,
      external_id |-> ExternalIdOf(row),
      first_name  |-> Or(Or(Get(row, "first_name"), Get(row, "firstName")), Unknown),
      middle_name |-> Or(Or(Get(row, "middle_name"), Get(row, "middleName")), Null),
      last_name   |-> Or(Or(Get(row, "last_name"), Get(row, "lastName")), Unknown),
      suffix      |-> Or(Get(row, "suffix"), Null),
      age         |-> IF Falsy(Get(row, "age")) THEN Null ELSE NumberOf(Get(row, "age")),
      gender      |-> Or(Get(row, "gender"), Null),
      race        |-> Or(Get(row, "race"), Null),
      party       |-> Or(Get(row, "party"), Null),
      phone       |-> Or(Get(row, "phone"), Null),
      address     |-> Or(Or(And(Get(row, "address"), Trim(Get(row, "address"))),
                            ComposedAddress(row)), Unknown),
      unit        |-> Or(Get(row, "unit"), Null),
      city        |-> Or(Get(row, "city"), Unknown),
      state       |-> Or(Get(row, "state"), <<"L", "A">>),
      zip         |-> Or(Get(row, "zip"), <<>>),
      geom_lat    |-> Or(Or(Get(row, "geom_lat"), Get(row, "geomLat")),
                         Jittered("40.7128", rlat)),
      geom_lng    |-> Or(Or(Get(row, "geom_lng"), Get(row, "geomLng")),
                         Jittered("-74.006", rlng)) ]

\* The upsert with ON CONFLICT DO NOTHING: an existing (org_id, external_id)
\* row is kept as it is.
InsertIfAbsent(vs, p) ==
    IF \E v \in vs : v.org_id = p.org_id /\ v.external_id = p.external_id
    THEN vs
    ELSE vs \cup { [c \in DOMAIN p \cup {"id", "source", "merged_into_voter_id"} |->
                      CASE c = "id" -> NewId(vs)
                        [] c = "source" -> "import"
                        [] c = "merged_into_voter_id" -> NoVoter
                        [] OTHER -> p[c]] }

\* An upsert that writes no row.
UpsertNothing(vs, p) == vs

\* The upsert with source = 'import' added to its DO UPDATE SET list.
UpsertSettingSource(vs, p) ==
    IF \E v \in vs : v.org_id = p.org_id /\ v.external_id = p.external_id
    THEN { IF v.org_id = p.org_id /\ v.external_id = p.external_id
           THEN [c \in DOMAIN v |-> IF c \in MappedCols THEN p[c]
                                    ELSE IF c = "source" THEN "import" ELSE v[c]]
           ELSE v : v \in vs }
    ELSE InsertIfAbsent(vs, p)

\* INSERT INTO voters (...) VALUES (...) ON CONFLICT (org_id, external_id)
\* DO UPDATE SET <every mapped column> = EXCLUDED.<column>.  The conflict is
\* arbitrated by the unique index uq_voters_org_external_id_not_null.  A new
\* row takes the column defaults: source 'import', merged_into_voter_id NULL.
UpsertVoter(vs, p) ==
    IF \E v \in vs : v.org_id = p.org_id /\ v.external_id = p.external_id
    THEN { IF v.org_id = p.org_id /\ v.external_id = p.external_id
           THEN [c \in DOMAIN v |-> IF c \in MappedCols THEN p[c] ELSE v[c]]
           ELSE v : v \in vs }
    ELSE vs \cup { [c \in DOMAIN p \cup {"id", "source", "merged_into_voter_id"} |->
                      CASE c = "id" -> NewId(vs)
                        [] c = "source" -> "import"
                        [] c = "merged_into_voter_id" -> NoVoter
                        [] OTHER -> p[c]] }

\* jsonb_set(COALESCE(metadata, '{}'), '{progress}', value, true)
JsonbSet(metadata, key, value) ==
    [k \in DOMAIN metadata \cup {key} |-> IF k = key THEN value ELSE metadata[k]]

\* UPDATE import_jobs SET ... WHERE id = $1 AND org_id = $2.  set names the
\* columns written; the pseudo-column "progress" is the jsonb_set on metadata.
UpdateJob(js, id, orgId, set) ==
    [j \in DOMAIN js |->
        IF j = id /\ js[j].org_id = orgId
        THEN [c \in DOMAIN js[j] |->
                IF c = "metadata" /\ "progress" \in DOMAIN set
                    THEN JsonbSet(js[j].metadata, "progress", set.progress)
                ELSE IF c \in DOMAIN set THEN set[c]
                ELSE js[j][c]]
        ELSE js[j]]

---------------------------------------------------------------------------
(***************************************************************************)
(* SQL statements and connections.  A statement is a record with field op; *)
(* ApplyStmt is its effect on a database, StmtError the error the store    *)
(* raises for it (Null when it succeeds).  A connection that has issued    *)
(* BEGIN collects its statements; they reach the committed tables at       *)
(* COMMIT (READ COMMITTED: no other connection sees them before), and are  *)
(* dropped by ROLLBACK.  Outside a transaction a statement commits by      *)
(* itself.                                                                 *)
(***************************************************************************)

\* The rows of a table an UPDATE ... WHERE org_id = $2 AND voter_id = $3 hits.
Referencing(rows, orgId, voterId) ==
    {m \in rows : m.org_id = orgId /\ m.voter_id = voterId}

\* UPDATE <table> SET voter_id = $1 WHERE org_id = $2 AND voter_id = $3
Rewire(rows, to, orgId, from) ==
    { IF m.org_id = orgId /\ m.voter_id = from THEN [m EXCEPT !.voter_id = to] ELSE m :
      m \in rows }

\* UNIQUE(org_id, list_id, voter_id) of list_members
UniqueListMembers(rows) ==
    \A a \in rows, b \in rows :
        (a.org_id = b.org_id /\ a.list_id = b.list_id /\ a.voter_id = b.voter_id)
            => a.id = b.id

\* The unique index uq_voters_org_external_id_not_null
UniqueExternalIds(vs) ==
    \A a \in vs, b \in vs :
        (a.external_id # Null /\ a.org_id = b.org_id /\ a.external_id = b.external_id)
            => a.id = b.id

UniqueViolation == <<"23505 duplicate key value violates unique constraint">>
ForeignKeyViolation == <<"23503 insert or update violates foreign key constraint">>

\* UPDATE voters SET merged_into_voter_id = $1 WHERE id = $2 AND org_id = $3
SetMergedInto(vs, to, id, orgId) ==
    { IF v.id = id /\ v.org_id = orgId THEN [v EXCEPT !.merged_into_voter_id = to] ELSE v :
      v \in vs }

\* UPDATE voters SET <col> = <value>, ... WHERE org_id = $n AND id = $m
UpdateVoterRow(vs, orgId, id, set) ==
    { IF v.id = id /\ v.org_id = orgId
      THEN [c \in DOMAIN v |-> IF c \in DOMAIN set THEN set[c] ELSE v[c]]
      ELSE v : v \in vs }

\* The UPDATE of voter_merge_alerts without the imported voter in its WHERE.
ResolveAlertsOfLead(alerts, orgId, leadId, importedId) ==
    { IF a.org_id = orgId /\ a.lead_voter_id = leadId /\ a.status = "open"
      THEN [a EXCEPT !.status = "resolved"] ELSE a : a \in alerts }

\* The merge without its UPDATE of voter_merge_alerts.
LeaveAlerts(alerts, orgId, leadId, importedId) == alerts

\* UPDATE voter_merge_alerts SET status = 'resolved'
\*  WHERE org_id = $1 AND lead_voter_id = $2 AND imported_voter_id = $3
\*    AND status = 'open'
ResolveAlerts(alerts, orgId, leadId, importedId) ==
    { IF a.org_id = orgId /\ a.lead_voter_id = leadId /\ a.imported_voter_id = importedId
         /\ a.status = "open"
      THEN [a EXCEPT !.status = "resolved"] ELSE a : a \in alerts }

\* UPDATE voter_merge_alerts SET status = $1 WHERE id = $2 AND org_id = $3
SetAlertStatus(alerts, status, id, orgId) ==
    { IF a.id = id /\ a.org_id = orgId THEN [a EXCEPT !.status = status] ELSE a :
      a \in alerts }

\* The voters of the tenant with the phone, leads included.
PhoneMatchesOfAnySource(vs, orgId, phone) ==
    {iv \in vs : iv.org_id = orgId /\ iv.phone = phone}

\* The imported voters the detection SELECT yields: iv.org_id = $1 AND
\* iv.source = 'import' AND iv.phone = $3
PhoneMatches(vs, orgId, phone) ==
    {iv \in vs : iv.org_id = orgId /\ iv.source = "import" /\ iv.phone = phone}

RECURSIVE InsertAlertsNoConflict(_, _, _, _)
\* The detection INSERT without ON CONFLICT and without the unique constraint.
InsertAlertsNoConflict(alerts, orgId, leadId, importedIds) ==
    IF importedIds = {} THEN alerts
    ELSE LET iv == CHOOSE x \in importedIds : \A y \in importedIds : x <= y
         IN  InsertAlertsNoConflict(
                 alerts \cup { [id |-> NewId(alerts), org_id |-> orgId,
                                lead_voter_id |-> leadId, imported_voter_id |-> iv,
                                reason |-> "phone_match", status |-> "open"] },
                 orgId, leadId, importedIds \ {iv})

RECURSIVE InsertAlerts(_, _, _, _)
\* INSERT INTO voter_merge_alerts (org_id, lead_voter_id, imported_voter_id,
\* reason, status) SELECT $1, $2, iv.id, 'phone_match', 'open' ...
\* ON CONFLICT (org_id, lead_voter_id, imported_voter_id) DO NOTHING
InsertAlerts(alerts, orgId, leadId, importedIds) ==
    IF importedIds = {} THEN alerts
    ELSE LET iv == CHOOSE x \in importedIds : \A y \in importedIds : x <= y
             conflict == \E a \in alerts : /\ a.org_id = orgId
                                           /\ a.lead_voter_id = leadId
                                           /\ a.imported_voter_id = iv
             next == IF conflict THEN alerts
                     ELSE alerts \cup { [id |-> NewId(alerts), org_id |-> orgId,
                                         lead_voter_id |-> leadId,
                                         imported_voter_id |-> iv,
                                         reason |-> "phone_match", status |-> "open"] }
         IN  InsertAlerts(next, orgId, leadId, importedIds \ {iv})

\* INSERT INTO list_members ... ON CONFLICT (org_id, list_id, voter_id) DO NOTHING
InsertListMember(rows, orgId, listId, voterId) ==
    IF \E m \in rows : m.org_id = orgId /\ m.list_id = listId /\ m.voter_id = voterId
    THEN rows
    ELSE rows \cup { [id |-> NewId(rows), org_id |-> orgId, list_id |-> listId,
                      voter_id |-> voterId] }

\* The insert without its ON CONFLICT clause and without the unique constraint.
InsertInteractionAgain(rows, row) == rows \cup {row}

\* INSERT INTO survey_responses (org_id, interaction_id, responses) ... ON
\* CONFLICT (org_id, interaction_id) DO NOTHING.  The table has at most one
\* row per interaction and is read only joined to it, so it is held as the
\* column survey_responses of the interaction (NULL: no row to join).
InsertSurveyResponses(rows, orgId, interactionId, responses) ==
    { IF i.org_id = orgId /\ i.id = interactionId /\ i.survey_responses = Null
      THEN [i EXCEPT !.survey_responses = responses]
      ELSE i : i \in rows }

\* INSERT INTO interactions ... ON CONFLICT (org_id, client_interaction_uuid)
\* DO NOTHING
InsertInteraction(rows, row) ==
    IF \E i \in rows : i.org_id = row.org_id
                       /\ i.client_interaction_uuid = row.client_interaction_uuid
    THEN rows
    ELSE rows \cup {row}

\* A query rejected for a reason outside the statement (connection, timeout).
StoreUnavailable == <<"store unavailable">>

\* SQLSTATE 22P02: NaN sent for the INTEGER column voters.age.
InvalidInteger == <<"22P02 invalid input syntax for type integer">>

StmtError(db, st) ==
    CASE st.op = "upsert_voter" ->
            IF st.params.age = NaN THEN InvalidInteger ELSE Null
      [] st.op = "rewire_list_members" ->
            IF UniqueListMembers(Rewire(db.list_members, st.to, st.org_id, st.from))
            THEN Null ELSE UniqueViolation
      [] st.op = "update_voter" ->
            IF UniqueExternalIds(UpdateVoterRow(db.voters, st.org_id, st.id, st.set))
            THEN Null ELSE UniqueViolation
      [] st.op = "insert_list_member" ->
            IF \/ \E v \in db.voters : v.id = st.voter_id
               \/ InsertListMember(db.list_members, st.org_id, st.list_id, st.voter_id)
                     = db.list_members
            THEN Null ELSE ForeignKeyViolation
      [] st.op = "insert_interaction" ->
            IF \/ \E v \in db.voters : v.id = st.row.voter_id
               \/ InsertInteraction(db.interactions, st.row) = db.interactions
            THEN Null ELSE ForeignKeyViolation
      [] OTHER -> Null

\* The rowCount / RETURNING rows of a statement.
RowCount(db, st) ==
    CASE st.op = "rewire_interactions" ->
            Cardinality(Referencing(db.interactions, st.org_id, st.from))
      [] st.op = "rewire_list_members" ->
            Cardinality(Referencing(db.list_members, st.org_id, st.from))
      [] st.op = "update_alert" ->
            Cardinality({a \in db.alerts : a.id = st.id /\ a.org_id = st.org_id})
      [] st.op = "insert_interaction" ->
            IF InsertInteraction(db.interactions, st.row) = db.interactions THEN 0 ELSE 1
      [] OTHER -> 1

ApplyStmt(db, st) ==
    CASE st.op = "update_job" ->
            [db EXCEPT !.jobs = UpdateJob(@, st.id, st.org_id, st.set)]
      [] st.op = "insert_event" ->
            [db EXCEPT !.events = Append(@, st.row)]
      [] st.op = "insert_audit" ->
            [db EXCEPT !.audit_logs = @ (+) SetToBag({st.row})]
      [] st.op = "upsert_voter" ->
            [db EXCEPT !.voters = UpsertVoter(@, st.params)]
      [] st.op = "insert_voter" ->
            [db EXCEPT !.voters = @ \cup {st.row}]
      [] st.op = "update_voter" ->
            [db EXCEPT !.voters = UpdateVoterRow(@, st.org_id, st.id, st.set)]
      [] st.op = "detect_alerts" ->
            [db EXCEPT !.alerts = InsertAlerts(@, st.org_id, st.lead,
                  {iv.id : iv \in PhoneMatches(db.voters, st.org_id, st.phone)})]
      [] st.op = "update_alert" ->
            [db EXCEPT !.alerts = SetAlertStatus(@, st.status, st.id, st.org_id)]
      [] st.op = "insert_list" ->
            [db EXCEPT !.walk_lists = @ \cup {st.row}]
      [] st.op = "insert_list_member" ->
            [db EXCEPT !.list_members = InsertListMember(@, st.org_id, st.list_id, st.voter_id)]
      [] st.op = "insert_interaction" ->
            [db EXCEPT !.interactions = InsertInteraction(@, st.row)]
      [] st.op = "insert_survey_responses" ->
            [db EXCEPT !.interactions =
                InsertSurveyResponses(@, st.org_id, st.interaction_id, st.responses)]
      [] st.op = "rewire_interactions" ->
            [db EXCEPT !.interactions = Rewire(@, st.to, st.org_id, st.from)]
      [] st.op = "rewire_list_members" ->
            [db EXCEPT !.list_members = Rewire(@, st.to, st.org_id, st.from)]
      [] st.op = "set_merged_into" ->
            [db EXCEPT !.voters = SetMergedInto(@, st.to, st.id, st.org_id)]
      [] st.op = "resolve_alerts" ->
            [db EXCEPT !.alerts = ResolveAlerts(@, st.org_id, st.lead, st.imported)]

RECURSIVE Replay(_, _)
\* The statements applied in order.  A long sequence is applied as its first
\* half and then its second half on the result, which is the same order.
Replay(db, ops) ==
    CHOOSE after \in
        { IF o = <<>> THEN d
          ELSE IF Len(o) = 1 THEN ApplyStmt(d, o[1])
          ELSE Replay(Replay(d, SubSeq(o, 1, Len(o) \div 2)),
                      SubSeq(o, (Len(o) \div 2) + 1, Len(o)))
          : << d, o >> \in { << db, ops >> } } : TRUE

\* pool.connect(): a connection with no transaction open.
Idle == [inTx |-> FALSE, ops |-> <<>>]

\* A session is a database together with one connection to it.
Session(db, conn) == [db |-> db, conn |-> conn]

\* client.query('BEGIN')
Begin(s) == [s EXCEPT !.conn = [inTx |-> TRUE, ops |-> <<>>]]

\* client.query(<statement>), the statement succeeding.
Exec(s, st) ==
    IF s.conn.inTx
    THEN [s EXCEPT !.conn.ops = Append(@, st)]
    ELSE [s EXCEPT !.db = ApplyStmt(@, st)]

RECURSIVE ExecAll(_, _)
ExecAll(s, sts) ==
    IF sts = <<>> THEN s ELSE ExecAll(Exec(s, Head(sts)), Tail(sts))

\* client.query('COMMIT')
Commit(s) ==
    IF s.conn.inTx
    THEN [db |-> Replay(s.db, s.conn.ops), conn |-> Idle]
    ELSE s

\* A catch block without the ROLLBACK: the transaction stays open.
KeepTransaction(s) == s

\* A catch block that ends the transaction with COMMIT.
CommitOnError(s) == Commit(s)

\* client.query('ROLLBACK')
Rollback(s) == [s EXCEPT !.conn = Idle]

\* What the connection's own reads see: the committed tables overlaid with
\* the statements of its open transaction.
View(s) == Replay(s.db, s.conn.ops)

RECURSIVE Try(_, _, _, _)
\* Awaits the statements in order until one rejects: the session then, the
\* error (Null for none) and the row counts of the statements that ran.
\* The statement numbered failAt rejects with an error of the store.
Try(s, stmts, failAt, counts) ==
    IF stmts = <<>> THEN [s |-> s, error |-> Null, rowCount |-> counts]
    ELSE LET st == Head(stmts)
             err == IF failAt = Len(counts) + 1 THEN StoreUnavailable
                    ELSE StmtError(View(s), st)
         IN  IF err # Null
             THEN [s |-> s, error |-> err, rowCount |-> counts]
             ELSE Try(Exec(s, st), Tail(stmts), failAt,
                      Append(counts, RowCount(View(s), st)))

---------------------------------------------------------------------------
(***************************************************************************)
(* State.                                                                  *)
(***************************************************************************)
VARIABLES
    import_jobs,         \* table import_jobs: job id -> row
    voters,              \* table voters
    platform_events,     \* table platform_events, in insertion order
    audit_logs,          \* table audit_logs, as a bag of rows
    interactions,        \* table interactions
    walk_lists,          \* table walk_lists
    list_members,        \* table list_members
    voter_merge_alerts,  \* table voter_merge_alerts
    jobData,             \* the queue's stored payload of each enqueued job
    queue,               \* job ids waiting for a worker
    deliveries,          \* how often each job id was handed to a worker
    run                  \* per worker: the processImportJob call in progress

vars == << import_jobs, voters, platform_events, audit_logs, interactions,
           walk_lists, list_members, voter_merge_alerts, jobData, queue, deliveries, run >>

importVars == << import_jobs, platform_events, jobData, queue, deliveries, run >>

\* The committed database.
DB ==
    [ jobs |-> import_jobs, voters |-> voters, events |-> platform_events,
      audit_logs |-> audit_logs, interactions |-> interactions,
      walk_lists |-> walk_lists, list_members |-> list_members, alerts |-> voter_merge_alerts ]

\* The state variables take the tables of database db.
Store(db) ==
    /\ import_jobs' = db.jobs
    /\ voters' = db.voters
    /\ platform_events' = db.events
    /\ audit_logs' = db.audit_logs
    /\ interactions' = db.interactions
    /\ walk_lists' = db.walk_lists
    /\ list_members' = db.list_members
    /\ voter_merge_alerts' = db.alerts

(***************************************************************************)
(* Bounds and inputs.                                                      *)
(***************************************************************************)
\* The ids crypto.randomUUID() gives the import jobs, in the order given.
JobIds == {1, 2}

\* Times the queue hands a job it already delivered to a worker once more
\* (at-least-once delivery), over all jobs.
MaxRedeliveries == 1

\* req.context of an authenticated request (middleware/auth.ts).
Contexts ==
    { [orgId |-> "o1", userId |-> "u1", role |-> "admin"],
      [orgId |-> "o2", userId |-> "u2", role |-> "admin"],
      [orgId |-> "o1", userId |-> "u3", role |-> "canvasser"] }

Workers == {"w1"}

\* The draws of Math.random().
Randoms == {"r0", "r1"}

A1 == <<"A", "1">>
B2 == <<"B", "2">>

\* Rows a caller submits.  Between them: snake_case and camelCase keys, an
\* address to trim, split address components, a missing coordinate, a
\* non-numeric age, and external ids that are missing, empty and blank.
RowFull ==
    [ external_id |-> A1, first_name |-> <<"A", "L">>, last_name |-> <<"O", "N", "E">>,
      middle_name |-> <<"M">>, suffix |-> <<"J", "R">>, age |-> <<"0", "4", "2">>,
      gender |-> <<"F">>, race |-> <<"W">>, party |-> <<"D", "E", "M">>,
      phone |-> <<"5", "5", "5", "-", "1", "1", "1", "1">>,
      address |-> <<" ", "1", " ", "S", "T", " ">>, unit |-> <<"2">>,
      city |-> <<"N", "O">>, state |-> <<"T", "X">>, zip |-> <<"7", "0", "1">>,
      geom_lat |-> <<"3", "0">>, geom_lng |-> <<"-", "9", "0">> ]

RowSparse ==
    [ externalId |-> A1, firstName |-> <<"B", "O">>, geomLat |-> <<"3", "1">>,
      res_house_number |-> <<"1", "2">>, res_house_fraction |-> <<" ">>,
      res_street_name |-> <<"O", "A", "K", " ">> ]

RowOther ==
    [ external_id |-> B2, first_name |-> <<"C", "Y">>, address |-> <<" ">> ]

RowBadAge == [ external_id |-> B2, age |-> <<"X">> ]

RowEmptyId == [ external_id |-> <<>>, first_name |-> <<"N", "O">> ]

RowBlankId == [ external_id |-> <<" ">>, externalId |-> A1 ]

\* Request bodies of POST /api/v1/jobs/import-voters: one external id twice
\* with different fields; rows to skip around a row to import; a row the
\* store rejects after a row it accepts; two distinct external ids.
Payloads ==
    { << RowFull, RowSparse >>,
      << RowBlankId, RowFull, RowEmptyId >>,
      << RowOther, RowBadAge >>,
      << RowFull, RowOther >> }

\* The contexts that submit import jobs.
ImportContexts == { c \in Contexts : c.role = "admin" }

\* The store finds no unique index that the conflict target of the upsert
\* infers: uq_voters_org_external_id_not_null is a partial index and the
\* statement's ON CONFLICT (org_id, external_id) carries no index predicate.
NoArbiterIndex ==
    <<"42P10 no unique or exclusion constraint matching the ON CONFLICT specification">>

\* Errors of the external collaborators (object store, converter, store).
Faults == { StoreUnavailable, NoArbiterIndex }

---------------------------------------------------------------------------
(***************************************************************************)
(* Import jobs: POST /api/v1/jobs/import-voters, the queue, and            *)
(* processImportJob.                                                       *)
(***************************************************************************)

\* The progress object written under metadata.progress (started_at left out).
\* total_rows: null is written as no total_rows key.
ProgressNoTotal(phase) == [phase |-> phase, processed_rows |-> 0]

Progress(phase, processed, total) ==
    [phase |-> phase, processed_rows |-> processed, total_rows |-> total]

SetProgress(p, progress) ==
    [op |-> "update_job", id |-> p.jobId, org_id |-> p.orgId,
     set |-> [progress |-> progress]]

EventRow(p, type, metadata) ==
    [org_id |-> p.orgId, user_id |-> p.userId, event_type |-> type,
     metadata |-> metadata]

\* The statements from BEGIN to the import.started event.
StartStmts(p) ==
    << [op |-> "update_job", id |-> p.jobId, org_id |-> p.orgId,
        set |-> [status |-> "processing", progress |-> ProgressNoTotal("starting")]],
       [op |-> "insert_event", row |-> EventRow(p, "import.started", [job_id |-> p.jobId])] >>

\* The statements of a run that records its completion in the job only.
CompleteJobOnly(p, importedCount, skipped, totalRows) ==
    << SetProgress(p, Progress("finalizing", importedCount, totalRows)),
       [op |-> "update_job", id |-> p.jobId, org_id |-> p.orgId,
        set |-> [status |-> "completed",
                 result |-> [imported_count |-> importedCount,
                             skipped_missing_external_id |-> skipped,
                             total_rows |-> totalRows]]] >>

\* The statements from the final progress update to the audit record.
CompleteStmts(p, importedCount, skipped, totalRows) ==
    << SetProgress(p, Progress("finalizing", importedCount, totalRows)),
       [op |-> "update_job", id |-> p.jobId, org_id |-> p.orgId,
        set |-> [status |-> "completed",
                 result |-> [imported_count |-> importedCount,
                             skipped_missing_external_id |-> skipped,
                             total_rows |-> totalRows]]],
       [op |-> "insert_event",
        row |-> EventRow(p, "import.completed",
                    [job_id |-> p.jobId, count |-> importedCount,
                     skipped_missing_external_id |-> skipped, total_rows |-> totalRows])],
       [op |-> "insert_audit",
        row |-> [action |-> "import.success", actor_user_id |-> p.userId,
                 target_org_id |-> p.orgId,
                 metadata |-> [job_id |-> p.jobId, count |-> importedCount]]] >>

\* The statements of the catch block after ROLLBACK.
FailStmts(p, message) ==
    << [op |-> "update_job", id |-> p.jobId, org_id |-> p.orgId,
        set |-> [status |-> "failed", error |-> message]],
       [op |-> "insert_event",
        row |-> EventRow(p, "import.failed", [job_id |-> p.jobId, error |-> message])] >>

\* if (importedCount % 250 === 0) emit progress
ProgressEvery == 250

NoPayload == [jobId |-> 0, orgId |-> "", userId |-> "", voters |-> <<>>]

NotRunning ==
    [pc |-> "idle", payload |-> NoPayload, conn |-> Idle, rows |-> <<>>,
     totalRows |-> 0, idx |-> 0, importedCount |-> 0,
     skippedMissingExternalId |-> 0, error |-> Null]

\* The statement of the loop body for one row.
UpsertStmt(p, row, rlat, rlng) ==
    [op |-> "upsert_voter", params |-> VoterParams(p.orgId, row, rlat, rlng)]

\* The id the next import job gets.
NextJobId ==
    CHOOSE j \in JobIds \ DOMAIN import_jobs : \A k \in JobIds \ DOMAIN import_jobs : j <= k

\* The row POST /api/v1/jobs/import-voters inserts.
NewJobRow(ctx, body) ==
    [org_id |-> ctx.orgId, user_id |-> ctx.userId, type |-> "import_voters",
     status |-> "pending", file_key |-> Null, result |-> NoJson,
     error |-> Null, metadata |-> [count |-> Len(body)]]

\* The payload it hands to the queue.
JobPayload(jobId, ctx, body) ==
    [jobId |-> jobId, orgId |-> ctx.orgId, userId |-> ctx.userId, voters |-> body]

\* POST /api/v1/jobs/import-voters: insert the pending job, enqueue its payload.
CreateImportJob(ctx, body) ==
    /\ JobIds \ DOMAIN import_jobs # {}
    /\ LET jobId == NextJobId IN
        /\ import_jobs' = import_jobs @@ (jobId :> NewJobRow(ctx, body))
        /\ jobData' = jobData @@ (jobId :> JobPayload(jobId, ctx, body))
        /\ queue' = queue \cup {jobId}
        /\ deliveries' = deliveries @@ (jobId :> 0)
    /\ UNCHANGED << voters, platform_events, audit_logs, interactions, walk_lists,
                    list_members, voter_merge_alerts, run >>

RECURSIVE SumOver(_, _)
SumOver(f, S) ==
    IF S = {} THEN 0
    ELSE LET x == CHOOSE y \in S : TRUE IN f[x] + SumOver(f, S \ {x})

\* Redeliveries so far: made, or waiting in the queue.
Redelivered ==
    SumOver([j \in DOMAIN deliveries |-> IF deliveries[j] > 1 THEN deliveries[j] - 1 ELSE 0],
            DOMAIN deliveries)
    + Cardinality({j \in queue : deliveries[j] >= 1})

Busy(j) == \E w \in DOMAIN run : run[w].pc \notin {"idle", "returned", "threw", "crashed"}
                              /\ run[w].payload.jobId = j

\* The queue hands a job it already delivered to a worker again.
Redeliver(j) ==
    /\ j \in DOMAIN jobData
    /\ j \notin queue
    /\ ~Busy(j)
    /\ deliveries[j] >= 1
    /\ Redelivered < MaxRedeliveries
    /\ queue' = queue \cup {j}
    /\ UNCHANGED << import_jobs, voters, platform_events, audit_logs, interactions,
                    walk_lists, list_members, voter_merge_alerts, jobData, deliveries, run >>

\* The worker callback: processImportJob(pool, s3Client, job.data) is called
\* and takes a connection from the pool.
Dispatch(w, j) ==
    /\ run[w].pc \in {"idle", "returned", "threw", "crashed"}
    /\ j \in queue
    /\ queue' = queue \ {j}
    /\ deliveries' = [deliveries EXCEPT ![j] = @ + 1]
    /\ run' = [run EXCEPT ![w] = [NotRunning EXCEPT !.pc = "begin", !.payload = jobData[j]]]
    /\ UNCHANGED << import_jobs, voters, platform_events, audit_logs, interactions,
                    walk_lists, list_members, voter_merge_alerts, jobData >>

\* BEGIN; mark the job processing; import.started; rows = voters || [];
\* totalRows = rows.length; progress 'writing_voters'.
StepBegin(w) ==
    LET r == run[w]
        p == r.payload
        s == ExecAll(Begin(Session(DB, r.conn)),
                     StartStmts(p) \o
                     << SetProgress(p, Progress("writing_voters", 0, Len(p.voters))) >>)
    IN  /\ r.pc = "begin"
        /\ run' = [run EXCEPT ![w] = [r EXCEPT !.pc = "rows", !.conn = s.conn,
                                               !.rows = p.voters,
                                               !.totalRows = Len(p.voters)]]
        /\ Store(s.db)
        /\ UNCHANGED << jobData, queue, deliveries >>

\* The (org_id, external_id) keys of the voters a connection's open
\* transaction has inserted or updated: the store keeps them locked until
\* the transaction ends.
KeysWritten(conn) ==
    { << conn.ops[n].params.org_id, conn.ops[n].params.external_id >> :
        n \in {k \in DOMAIN conn.ops : conn.ops[k].op = "upsert_voter"} }

\* The runs whose open transaction holds the key that statement st of worker
\* w writes: the store makes the statement wait until they commit or roll back.
WaitsFor(w, st) ==
    {u \in DOMAIN run \ {w} :
        << st.params.org_id, st.params.external_id >> \in KeysWritten(run[u].conn)}

\* One iteration of: for (const row of rows) { ... }
StepRow(w, rlat, rlng) ==
    LET r == run[w]
        p == r.payload
        row == r.rows[r.idx + 1]
        st == UpsertStmt(p, row, rlat, rlng)
        sess == Session(DB, r.conn)
        imported == r.importedCount + 1
        s1 == Exec(sess, st)
        s2 == IF imported % ProgressEvery = 0
              THEN Exec(s1, SetProgress(p, Progress("writing_voters", imported, r.totalRows)))
              ELSE s1
    IN  /\ r.pc = "rows"
        /\ r.idx < Len(r.rows)
        /\ IF MissingExternalId(row)
           THEN /\ run' = [run EXCEPT ![w] = [r EXCEPT !.idx = @ + 1,
                                    !.skippedMissingExternalId = @ + 1]]
                /\ Store(DB)
           ELSE IF StmtError(View(sess), st) # Null
           THEN /\ run' = [run EXCEPT ![w] = [r EXCEPT !.pc = "catch",
                                    !.error = StmtError(View(sess), st)]]
                /\ Store(DB)
           ELSE /\ WaitsFor(w, st) = {}
                /\ run' = [run EXCEPT ![w] = [r EXCEPT !.idx = @ + 1, !.conn = s2.conn,
                                    !.importedCount = imported]]
                /\ Store(s2.db)
        /\ UNCHANGED << jobData, queue, deliveries >>

\* After the loop: final progress, status completed with the result, the
\* import.completed event, the audit record, COMMIT, return { importedCount }.
StepFinalize(w) ==
    LET r == run[w]
        s == Commit(ExecAll(Session(DB, r.conn),
                 CompleteStmts(r.payload, r.importedCount, r.skippedMissingExternalId,
                               r.totalRows)))
    IN  /\ r.pc = "rows"
        /\ r.idx = Len(r.rows)
        /\ run' = [run EXCEPT ![w] = [r EXCEPT !.pc = "returned", !.conn = s.conn]]
        /\ Store(s.db)
        /\ UNCHANGED << jobData, queue, deliveries >>

\* An awaited call inside the try block rejects with an error of a collaborator.
Throw(w, message) ==
    /\ run[w].pc \in {"begin", "rows"}
    /\ (message = NoArbiterIndex) =>
          /\ run[w].pc = "rows"
          /\ run[w].idx < Len(run[w].rows)
          /\ ~MissingExternalId(run[w].rows[run[w].idx + 1])
    /\ run' = [run EXCEPT ![w] = [@ EXCEPT !.pc = "catch", !.error = message]]
    /\ UNCHANGED << import_jobs, voters, platform_events, audit_logs, interactions,
                    walk_lists, list_members, voter_merge_alerts, jobData, queue, deliveries >>

\* catch (error): ROLLBACK; mark the job failed; import.failed; throw error;
\* finally release the connection.
StepCatch(w) ==
    LET r == run[w]
        s == ExecAll(Rollback(Session(DB, r.conn)), FailStmts(r.payload, r.error))
    IN  /\ r.pc = "catch"
        /\ run' = [run EXCEPT ![w] = [r EXCEPT !.pc = "threw", !.conn = s.conn]]
        /\ Store(s.db)
        /\ UNCHANGED << jobData, queue, deliveries >>

ImportInit ==
    /\ import_jobs = <<>>
    /\ voters = {}
    /\ platform_events = <<>>
    /\ audit_logs = EmptyBag
    /\ interactions = {}
    /\ walk_lists = {}
    /\ list_members = {}
    /\ voter_merge_alerts = {}
    /\ jobData = <<>>
    /\ queue = {}
    /\ deliveries = <<>>
    /\ run = [w \in Workers |-> NotRunning]

ImportNext ==
    \/ \E ctx \in ImportContexts, body \in Payloads : CreateImportJob(ctx, body)
    \/ \E j \in DOMAIN jobData : Redeliver(j)
    \/ \E w \in Workers, j \in queue : Dispatch(w, j)
    \/ \E w \in Workers : StepBegin(w)
    \/ \E w \in Workers, rlat \in Randoms, rlng \in Randoms : StepRow(w, rlat, rlng)
    \/ \E w \in Workers : StepFinalize(w)
    \/ \E w \in Workers, message \in Faults : Throw(w, message)
    \/ \E w \in Workers : StepCatch(w)

ImportSpec == ImportInit /\ [][ImportNext]_vars

---------------------------------------------------------------------------
(***************************************************************************)
(* Properties of the import pipeline.                                      *)
(***************************************************************************)

Terminal == {"completed", "failed"}

Importable(rows) == SelectSeq(rows, LAMBDA row : ~MissingExternalId(row))

\* The last row of rows that carries external id e.
LastRowWith(rows, e) ==
    LET is == {i \in 1..Len(rows) : ExternalIdOf(rows[i]) = e}
    IN  rows[Max(is)]

\* Voter v holds, in every mapped column, what row derives.
HoldsRow(v, orgId, row) ==
    \E rlat \in Randoms, rlng \in Randoms :
        \A c \in MappedCols : v[c] = VoterParams(orgId, row, rlat, rlng)[c]

\* processImportJob of worker w commits in this step.
Commits(w) == run[w].pc = "rows" /\ run'[w].pc = "returned"

CompletedAt(k) == platform_events[k].event_type = "import.completed"

HasExternalId(v) == ~Falsy(v.external_id) /\ Trim(v.external_id) # <<>>

\* The voters table as worker w's connection sees it.
VotersSeenBy(w) == View(Session(DB, run[w].conn)).voters

\* C3: no voter, committed or pending in a transaction, has a missing, empty
\* or blank external id; a run fails only when the store is unavailable or on a row that has an
\* external id; and a completed job's result counts every row once:
\* skipped_missing_external_id + imported_count = total_rows = the rows given.
C3_SkipNotFail ==
    /\ \A v \in voters : HasExternalId(v)
    /\ \A w \in Workers :
          /\ \A v \in VotersSeenBy(w) : HasExternalId(v)
          /\ (run[w].pc \in {"catch", "threw"} /\ run[w].error # StoreUnavailable) =>
                ~MissingExternalId(run[w].rows[run[w].idx + 1])
    /\ \A j \in DOMAIN import_jobs :
          import_jobs[j].status = "completed" =>
            LET res == import_jobs[j].result
                rows == jobData[j].voters
            IN  /\ res.total_rows = Len(rows)
                /\ res.imported_count = Len(Importable(rows))
                /\ res.skipped_missing_external_id + res.imported_count = res.total_rows

\* A job has completed that skipped two rows and imported one.
C3_Witness ==
    \E j \in DOMAIN import_jobs :
        /\ import_jobs[j].status = "completed"
        /\ import_jobs[j].result.skipped_missing_external_id = 2
        /\ import_jobs[j].result.imported_count = 1
        /\ Cardinality(voters) = 1

\* The catch block of worker w runs in this step.
Catches(w) == run[w].pc = "catch" /\ run'[w].pc = "threw"

---------------------------------------------------------------------------
(***************************************************************************)
(* The reconciliation API: manual leads, merge alerts and the merge of a   *)
(* lead into an imported voter, together with the lists and interactions   *)
(* a merge rewires.                                                        *)
(***************************************************************************)

\* Import jobs run, over all tenants.
MaxImports == 1
\* Manual leads created, over all tenants.
MaxLeads == 1
\* Walk lists created, over all tenants.
MaxLists == 1
\* Interactions recorded, over all tenants.
MaxInteractions == 1
\* PATCH /voters/:id calls that change a voter.
MaxVoterUpdates == 1
\* PATCH /merge-alerts/:id calls that change an alert.
MaxAlertUpdates == 1
\* Merge calls that rewire (idempotent repeats and rejected calls are free).
MaxMerges == 2

Phone1 == <<"5", "5", "5", "-", "1", "1", "1", "1">>

\* Bodies of POST /api/v1/voters: a phone to trim that matches RowFull's, and
\* no phone.
LeadBodies ==
    { [firstName |-> <<"L", "E", "E">>, phone |-> <<" ">> \o Phone1 \o <<" ">>],
      [firstName |-> <<"M", "O">>] }

\* Bodies of PATCH /api/v1/voters/:id.
VoterPatches == { [phone |-> Phone1] }

\* A second registered voter with RowFull's phone.
RowTwin ==
    [ external_id |-> B2, first_name |-> <<"T", "Y">>, last_name |-> <<"T", "W", "O">>,
      phone |-> Phone1, geom_lat |-> <<"3", "0">>, geom_lng |-> <<"-", "9", "0">> ]

\* A registered voter whose phone is written with blanks around it.
RowPadded ==
    [ external_id |-> B2, first_name |-> <<"P", "A", "D">>,
      phone |-> <<" ">> \o Phone1 \o <<" ">> ]

\* The bodies of the imports that bring a voter file in.
VoterFiles == { << RowFull, RowTwin >>, << RowPadded >> }

ClientUuids == {"c1"}

AlertStatuses == {"open", "resolved", "dismissed"}

\* The statement of a merge whose query is made to reject (0: none).
MergeFaults == {0, 4}

\* The contexts that call the routes behind requireAdmin.
AdminContexts == { c \in Contexts : c.role = "admin" }

\* The contexts that add leads, lists and interactions in the field.
FieldContexts == { c \in Contexts : c.role = "canvasser" }

\* res.status(status).json(body)
Respond(status, body) == [status |-> status, body |-> body]

\* The handler's promise rejects: throw err.
Rejected(message) == [threw |-> message]

\* requireAdmin
Forbidden == Respond(403, [error |-> "Insufficient Permissions"])

\* a ?? b
Nullish(a, b) == IF a \in {Undef, Null} THEN b ELSE a

\* v.geom?.lat
GeomOf(v, k) == IF "geom" \in DOMAIN v THEN Get(v.geom, k) ELSE Undef

\* The parameter list of the INSERT of POST /api/v1/voters.
NewVoterRow(id, orgId, v) ==
    [ id          |-> id,
      org_id      |-> orgId,
      external_id |-> Or(Get(v, "externalId"), Null),
      source      |-> "manual",
      merged_into_voter_id |-> NoVoter,
      first_name  |-> Or(Get(v, "firstName"), <<>>),
      middle_name |-> Or(Get(v, "middleName"), Null),
      last_name   |-> Or(Get(v, "lastName"), <<>>),
      suffix      |-> Or(Get(v, "suffix"), Null),
      age         |-> Or(Get(v, "age"), Null),
      gender      |-> Or(Get(v, "gender"), Null),
      race        |-> Or(Get(v, "race"), Null),
      party       |-> Or(Get(v, "party"), Null),
      phone       |-> Or(Get(v, "phone"), Null),
      address     |-> Or(Get(v, "address"), <<>>),
      unit        |-> Or(Get(v, "unit"), Null),
      city        |-> Or(Get(v, "city"), <<>>),
      state       |-> Or(Get(v, "state"), Null),
      zip         |-> Or(Get(v, "zip"), <<>>),
      geom_lat    |-> Nullish(GeomOf(v, "lat"), Null),
      geom_lng    |-> Nullish(GeomOf(v, "lng"), Null) ]

\* The SELECT without its org_id condition.
SelectAnyTenant(db, id, orgId) == {v \in db.voters : v.id = id}

\* SELECT * FROM voters WHERE id = $1 AND org_id = $2
SelectVoter(db, id, orgId) == {v \in db.voters : v.id = id /\ v.org_id = orgId}

\* mapVoter, for the identifying fields of the row.
MapVoter(row) ==
    [id |-> row.id, orgId |-> row.org_id, externalId |-> Or(row.external_id, Undef),
     source |-> row.source, phone |-> Or(row.phone, Undef)]

\* The detection statement for a lead and a trimmed phone.
DetectStmt(orgId, leadId, phone) ==
    [op |-> "detect_alerts", org_id |-> orgId, lead |-> leadId, phone |-> phone]

AuditRow(ctx, action, metadata) ==
    [action |-> action, actor_user_id |-> ctx.userId, target_org_id |-> ctx.orgId,
     metadata |-> metadata]

\* The number of audit rows with an action.
AuditCount(action) ==
    BagCardinality([row \in {x \in BagToSet(audit_logs) : x.action = action} |->
                       CopiesIn(row, audit_logs)])

\* What a handler leaves: the committed database and its response.
Reply(db, response) == [db |-> db, response |-> response]

\* POST /api/v1/voters on database db: insert the lead with source 'manual',
\* then detect imported voters of the tenant with the same (trimmed) phone.
CreateVoterReply(db, ctx, v) ==
    LET id == NewId(db.voters)
        phone == Get(v, "phone")
        s1 == Exec(Session(db, Idle),
                   [op |-> "insert_voter", row |-> NewVoterRow(id, ctx.orgId, v)])
        s2 == IF ~Falsy(phone) /\ Trim(phone) # <<>>
              THEN Exec(s1, DetectStmt(ctx.orgId, id, Trim(phone)))
              ELSE s1
        created == CHOOSE row \in SelectVoter(s2.db, id, ctx.orgId) : TRUE
    IN  Reply(s2.db, Respond(201, MapVoter(created)))

CreateVoter(ctx, v) ==
    /\ Cardinality({x \in voters : x.source = "manual"}) < MaxLeads
    /\ Store(CreateVoterReply(DB, ctx, v).db)
    /\ UNCHANGED << jobData, queue, deliveries, run >>

\* The fields array of PATCH /api/v1/voters/:id: column, body key, value.
PatchFields(v) ==
    { [col |-> "external_id", key |-> "externalId", value |-> Get(v, "externalId")],
      [col |-> "first_name", key |-> "firstName", value |-> Get(v, "firstName")],
      [col |-> "middle_name", key |-> "middleName", value |-> Get(v, "middleName")],
      [col |-> "last_name", key |-> "lastName", value |-> Get(v, "lastName")],
      [col |-> "suffix", key |-> "suffix", value |-> Get(v, "suffix")],
      [col |-> "age", key |-> "age", value |-> Get(v, "age")],
      [col |-> "gender", key |-> "gender", value |-> Get(v, "gender")],
      [col |-> "race", key |-> "race", value |-> Get(v, "race")],
      [col |-> "party", key |-> "party", value |-> Get(v, "party")],
      [col |-> "phone", key |-> "phone", value |-> Get(v, "phone")],
      [col |-> "address", key |-> "address", value |-> Get(v, "address")],
      [col |-> "unit", key |-> "unit", value |-> Get(v, "unit")],
      [col |-> "city", key |-> "city", value |-> Get(v, "city")],
      [col |-> "state", key |-> "state", value |-> Get(v, "state")],
      [col |-> "zip", key |-> "zip", value |-> Get(v, "zip")],
      [col |-> "geom_lat", key |-> "geom.lat", value |-> GeomOf(v, "lat")],
      [col |-> "geom_lng", key |-> "geom.lng", value |-> GeomOf(v, "lng")] }

\* The fields the loop keeps: given, and not external_id on a voter that is
\* not a manual lead.
KeptFields(existing, v) ==
    {f \in PatchFields(v) :
        /\ f.value # Undef
        /\ ~(f.col = "external_id" /\ existing.source # "manual")}

\* PATCH /api/v1/voters/:id (admin) on database db: update the given columns
\* ('' as NULL), audit, and for a manual lead whose phone was given run the
\* detection.
UpdateVoterReply(db, ctx, id, v) ==
    LET found == SelectVoter(db, id, ctx.orgId)
        existing == CHOOSE row \in found : TRUE
        kept == KeptFields(existing, v)
        keys == {f.key : f \in kept}
        set == [c \in {f.col : f \in kept} |->
                   LET f == CHOOSE f \in kept : f.col = c
                   IN  IF f.value = <<>> THEN Null ELSE f.value]
        changes == [k \in keys |-> (CHOOSE f \in kept : f.key = k).value]
        update == [op |-> "update_voter", org_id |-> ctx.orgId, id |-> id, set |-> set]
        s1 == Exec(Session(db, Idle), update)
        s2 == Exec(s1, [op |-> "insert_audit",
                        row |-> AuditRow(ctx, "voter.update",
                                         [voter_id |-> id, changes |-> changes])])
        phone == IF "phone" \in keys THEN Trim(Or(changes.phone, <<>>)) ELSE <<>>
        s3 == IF "phone" \in keys /\ existing.source = "manual" /\ phone # <<>>
              THEN Exec(s2, DetectStmt(ctx.orgId, id, phone))
              ELSE s2
        updated == CHOOSE row \in SelectVoter(s3.db, id, ctx.orgId) : TRUE
    IN  IF ctx.role # "admin" THEN Reply(db, Forbidden)
        ELSE IF found = {} THEN Reply(db, Respond(404, [error |-> "Not found"]))
        ELSE IF keys = {} THEN Reply(db, Respond(200, [ok |-> TRUE]))
        ELSE IF StmtError(db, update) # Null
        THEN Reply(db, Rejected(StmtError(db, update)))
        ELSE Reply(s3.db, Respond(200, MapVoter(updated)))

UpdateVoter(ctx, id, v) ==
    /\ AuditCount("voter.update") < MaxVoterUpdates
    /\ Store(UpdateVoterReply(DB, ctx, id, v).db)
    /\ UNCHANGED << jobData, queue, deliveries, run >>

\* POST /api/v1/lists on database db: in one transaction insert the list and
\* a membership for each voter id given; on an error ROLLBACK and throw.
CreateListReply(db, ctx, body) ==
    LET listId == NewId(db.walk_lists)
        stmts == << [op |-> "insert_list",
                     row |-> [id |-> listId, org_id |-> ctx.orgId, name |-> body.name,
                              created_by_user_id |-> ctx.userId]] >>
                 \o [i \in 1..Len(body.voterIds) |->
                        [op |-> "insert_list_member", org_id |-> ctx.orgId,
                         list_id |-> listId, voter_id |-> body.voterIds[i]]]
        r == Try(Begin(Session(db, Idle)), stmts, 0, <<>>)
        done == Commit(r.s)
        members == {m \in done.db.list_members :
                       m.org_id = ctx.orgId /\ m.list_id = listId}
    IN  IF Falsy(Get(body, "name"))
        THEN Reply(db, Respond(400, [error |-> "name required"]))
        ELSE IF r.error # Null
        THEN Reply(Rollback(r.s).db, Rejected(r.error))
        ELSE Reply(done.db, Respond(201, [id |-> listId, orgId |-> ctx.orgId,
                                          voterIds |-> {m.voter_id : m \in members}]))

CreateList(ctx, body) ==
    /\ Cardinality(walk_lists) < MaxLists
    /\ Store(CreateListReply(DB, ctx, body).db)
    /\ UNCHANGED << jobData, queue, deliveries, run >>

\* POST /api/v1/interactions on database db: in one transaction insert the
\* interaction unless the tenant already has its client_interaction_uuid.
CreateInteractionReply(db, ctx, body) ==
    LET id == NewId(db.interactions)
        st == [op |-> "insert_interaction",
               row |-> [id |-> id, org_id |-> ctx.orgId, user_id |-> ctx.userId,
                        voter_id |-> body.voter_id, result_code |-> body.result_code,
                        client_interaction_uuid |-> body.client_interaction_uuid]]
        r == Try(Begin(Session(db, Idle)), << st >>, 0, <<>>)
        inserted == r.rowCount[1] = 1
        done == Commit(r.s)
        row == CHOOSE i \in done.db.interactions :
                  /\ i.org_id = ctx.orgId
                  /\ i.client_interaction_uuid = body.client_interaction_uuid
    IN  IF r.error # Null
        THEN Reply(Rollback(r.s).db, Rejected(r.error))
        ELSE Reply(done.db, Respond(IF inserted THEN 201 ELSE 200,
                                    [id |-> row.id, voter_id |-> row.voter_id]))

CreateInteraction(ctx, body) ==
    /\ Cardinality(interactions) < MaxInteractions
    /\ Store(CreateInteractionReply(DB, ctx, body).db)
    /\ UNCHANGED << jobData, queue, deliveries, run >>

\* PATCH /api/v1/merge-alerts/:id (admin) on database db: set the alert's
\* status, audit.
UpdateMergeAlertReply(db, ctx, id, status) ==
    LET update == [op |-> "update_alert", status |-> status, id |-> id,
                   org_id |-> ctx.orgId]
        s1 == Exec(Session(db, Idle), update)
        s2 == Exec(s1, [op |-> "insert_audit",
                        row |-> AuditRow(ctx, "merge_alert.update",
                                         [alert_id |-> id, status |-> status])])
    IN  IF ctx.role # "admin" THEN Reply(db, Forbidden)
        ELSE IF status \notin AlertStatuses
        THEN Reply(db, Respond(400, [error |-> "Invalid status"]))
        ELSE IF RowCount(db, update) = 0
        THEN Reply(s1.db, Respond(404, [error |-> "Not found"]))
        ELSE Reply(s2.db, Respond(200, [ok |-> TRUE]))

UpdateMergeAlert(ctx, id, status) ==
    /\ AuditCount("merge_alert.update") < MaxAlertUpdates
    /\ Store(UpdateMergeAlertReply(DB, ctx, id, status).db)
    /\ UNCHANGED << jobData, queue, deliveries, run >>

\* POST /api/v1/voters/:leadId/merge-into/:importedId (admin) on database db:
\* in one transaction check both voters, then rewire interactions and list
\* memberships, mark the lead merged, resolve the pair's open alerts and
\* audit; on an error ROLLBACK and throw.  The statement numbered failAt
\* rejects with an error of the store (0: none does).
MergeReply(db, ctx, leadId, importedId, failAt) ==
    LET s0 == Begin(Session(db, Idle))
        lead == SelectVoter(View(s0), Uuid(leadId), ctx.orgId)
        imported == SelectVoter(View(s0), Uuid(importedId), ctx.orgId)
        leadRow == CHOOSE row \in lead : TRUE
        importedRow == CHOOSE row \in imported : TRUE
        stmts == << [op |-> "rewire_interactions", to |-> Uuid(importedId),
                     org_id |-> ctx.orgId, from |-> Uuid(leadId)],
                    [op |-> "rewire_list_members", to |-> Uuid(importedId),
                     org_id |-> ctx.orgId, from |-> Uuid(leadId)],
                    [op |-> "set_merged_into", to |-> Uuid(importedId),
                     id |-> Uuid(leadId), org_id |-> ctx.orgId],
                    [op |-> "resolve_alerts", org_id |-> ctx.orgId,
                     lead |-> Uuid(leadId), imported |-> Uuid(importedId)] >>
        r == Try(s0, stmts, failAt, <<>>)
        audit == [op |-> "insert_audit",
                  row |-> AuditRow(ctx, "voter.merge",
                             [lead_voter_id |-> leadId, imported_voter_id |-> importedId,
                              moved_interactions |-> r.rowCount[1],
                              moved_list_members |-> r.rowCount[2]])]
        r2 == Try(r.s, << audit >>, failAt - Len(stmts), <<>>)
        done == Commit(r2.s)
    IN  IF ctx.role # "admin" THEN Reply(db, Forbidden)
        ELSE IF Malformed \in {leadId, importedId}
        THEN Reply(Rollback(s0).db, Rejected(InvalidUuid))
        ELSE IF lead = {} \/ imported = {}
        THEN Reply(Rollback(s0).db, Respond(404, [error |-> "Voter not found"]))
        ELSE IF leadRow.source # "manual"
        THEN Reply(Rollback(s0).db,
                   Respond(400, [error |-> "Lead voter must have source=manual"]))
        ELSE IF importedRow.source # "import"
        THEN Reply(Rollback(s0).db,
                   Respond(400, [error |-> "Target voter must have source=import"]))
        ELSE IF /\ leadRow.merged_into_voter_id # NoVoter
                /\ UuidText(leadRow.merged_into_voter_id) = importedId
        THEN Reply(Commit(s0).db,
                   Respond(200, [ok |-> TRUE, merged |-> TRUE, idempotent |-> TRUE]))
        ELSE IF r.error # Null THEN Reply(Rollback(r.s).db, Rejected(r.error))
        ELSE IF r2.error # Null THEN Reply(Rollback(r2.s).db, Rejected(r2.error))
        ELSE Reply(done.db,
                   Respond(200, [ok |-> TRUE, merged |-> TRUE,
                                 moved_interactions |-> r.rowCount[1],
                                 moved_list_members |-> r.rowCount[2]]))

MergeVoters(ctx, leadId, importedId, failAt) ==
    /\ AuditCount("voter.merge") < MaxMerges
    /\ Store(MergeReply(DB, ctx, leadId, importedId, failAt).db)
    /\ UNCHANGED << jobData, queue, deliveries, run >>

RECURSIVE LoopRows(_, _, _, _, _)
\* for (const row of rows) { ... } run from the first of rows to the end or
\* to the first error, from loop state st.
LoopRows(st, p, rows, rlat, rlng) ==
    IF rows = <<>> \/ st.error # Null THEN st
    ELSE LET row == Head(rows)
             up == UpsertStmt(p, row, rlat, rlng)
             imported == st.importedCount + 1
             s1 == Exec(st.s, up)
             s2 == IF imported % ProgressEvery = 0
                   THEN Exec(s1, SetProgress(p, Progress("writing_voters", imported,
                                                         Len(p.voters))))
                   ELSE s1
             next == IF MissingExternalId(row)
                     THEN [st EXCEPT !.skippedMissingExternalId = @ + 1]
                     ELSE IF StmtError(View(st.s), up) # Null
                     THEN [st EXCEPT !.error = StmtError(View(st.s), up)]
                     ELSE [st EXCEPT !.s = s2, !.importedCount = imported]
         IN  LoopRows(next, p, Tail(rows), rlat, rlng)

\* processImportJob from BEGIN to COMMIT, or to the catch block, on database
\* db: the database it leaves.
ProcessImportJob(db, p, rlat, rlng) ==
    LET s0 == ExecAll(Begin(Session(db, Idle)),
                      StartStmts(p) \o
                      << SetProgress(p, Progress("writing_voters", 0, Len(p.voters))) >>)
        l == LoopRows([s |-> s0, importedCount |-> 0, skippedMissingExternalId |-> 0,
                       error |-> Null], p, p.voters, rlat, rlng)
    IN  IF l.error = Null
        THEN Commit(ExecAll(l.s, CompleteStmts(p, l.importedCount,
                                               l.skippedMissingExternalId,
                                               Len(p.voters)))).db
        ELSE ExecAll(Rollback(l.s), FailStmts(p, l.error)).db

\* POST /api/v1/jobs/import-voters and the worker's run of the job, taken as
\* one step: the run is one transaction, so the reconciliation API sees
\* nothing of it before its COMMIT.
ImportVoters(ctx, body, rlat, rlng) ==
    /\ JobIds \ DOMAIN import_jobs # {}
    /\ Cardinality(DOMAIN import_jobs) < MaxImports
    /\ LET jobId == NextJobId
           p == JobPayload(jobId, ctx, body)
       IN  /\ Store(ProcessImportJob([DB EXCEPT !.jobs = @ @@ (jobId :> NewJobRow(ctx, body))],
                                     p, rlat, rlng))
           /\ jobData' = jobData @@ (jobId :> p)
           /\ deliveries' = deliveries @@ (jobId :> 1)
    /\ UNCHANGED << queue, run >>

VoterIds == {v.id : v \in voters}

\* The (lead, target) pairs of merge requests over ids, spelled as the API
\* returns ids.
MergePairs(ids) == {<< UuidText(ab[1]), UuidText(ab[2]) >> : ab \in ids \X ids}

\* Bodies of POST /api/v1/lists: one or two of the voters there are.
ListBodies ==
    { [name |-> <<"W">>, voterIds |-> << a >>] : a \in VoterIds }
    \cup { [name |-> <<"W">>, voterIds |-> << ab[1], ab[2] >>] :
             ab \in {x \in VoterIds \X VoterIds : x[1] < x[2]} }

\* Bodies of POST /api/v1/interactions.
InteractionBodies ==
    { [client_interaction_uuid |-> c, voter_id |-> a, result_code |-> "contacted"] :
        c \in ClientUuids, a \in VoterIds }

MergeInit == ImportInit

MergeNext ==
    \/ \E ctx \in ImportContexts, body \in VoterFiles, rlat \in Randoms, rlng \in Randoms :
          ImportVoters(ctx, body, rlat, rlng)
    \/ \E ctx \in FieldContexts, v \in LeadBodies : CreateVoter(ctx, v)
    \/ \E ctx \in AdminContexts, id \in VoterIds, v \in VoterPatches : UpdateVoter(ctx, id, v)
    \/ \E ctx \in FieldContexts, body \in ListBodies : CreateList(ctx, body)
    \/ \E ctx \in FieldContexts, body \in InteractionBodies : CreateInteraction(ctx, body)
    \/ \E ctx \in AdminContexts, a \in voter_merge_alerts, status \in AlertStatuses :
          UpdateMergeAlert(ctx, a.id, status)
    \/ \E ctx \in AdminContexts, pair \in MergePairs(VoterIds), failAt \in MergeFaults :
          MergeVoters(ctx, pair[1], pair[2], failAt)

MergeSpec == MergeInit /\ [][MergeNext]_vars

---------------------------------------------------------------------------
(***************************************************************************)
(* Properties of the merge and of alert detection.  A handler's outcome is *)
(* a function of the committed database and the request, so a property of  *)
(* every call is an invariant over the reachable databases and all         *)
(* requests.                                                               *)
(***************************************************************************)

\* Voter ids a request may name: those there are, and one there is not.
RequestIds == VoterIds \cup {NewId(voters)}

\* The (lead, target) pairs a merge request may name: those ids in lower
\* case, those ids in upper case, and a text that is no uuid in either place.
MergeRequests ==
    MergePairs(RequestIds)
    \cup {<< UpperText(ab[1]), UpperText(ab[2]) >> : ab \in RequestIds \X RequestIds}
    \cup {<< Malformed, UuidText(n) >> : n \in RequestIds}
    \cup {<< UuidText(n), Malformed >> : n \in RequestIds}

Succeeded(reply) ==
    "status" \in DOMAIN reply.response /\ reply.response.status = 200

Threw(reply) == "threw" \in DOMAIN reply.response

Idempotent == Respond(200, [ok |-> TRUE, merged |-> TRUE, idempotent |-> TRUE])

InTenant(id, orgId) == \E v \in voters : v.id = id /\ v.org_id = orgId

VoterOf(id) == CHOOSE v \in voters : v.id = id

\* C5: a merge call in which a statement fails (a list membership that would
\* repeat (org, list, voter), or the store rejecting a query) leaves the
\* database as it was: no interaction and no list membership rewired, the
\* lead's merged_into_voter_id as before, no alert changed, no audit row.
C5_MergeAllOrNothing ==
    \A ctx \in Contexts, req \in MergeRequests, failAt \in MergeFaults :
        LET out == MergeReply(DB, ctx, req[1], req[2], failAt)
        IN  Threw(out) =>
              /\ out.db.interactions = interactions
              /\ out.db.list_members = list_members
              /\ out.db.voters = voters
              /\ out.db.alerts = voter_merge_alerts
              /\ out.db.audit_logs = audit_logs

\* A lead with an interaction shares a list with an imported voter of its
\* tenant, so merging the two rewires the interaction and then fails on the
\* list membership.
C5_Witness ==
    \E l \in voters, t \in voters, ctx \in Contexts :
        /\ l.source = "manual" /\ t.source = "import"
        /\ Referencing(interactions, ctx.orgId, l.id) # {}
        /\ MergeReply(DB, ctx, UuidText(l.id), UuidText(t.id), 0).response
              = Rejected(UniqueViolation)

\* C6: a merge call that succeeds, made again with the same arguments,
\* succeeds again with idempotent: true and leaves the database as the first
\* call left it.
C6_MergeIdempotent ==
    \A ctx \in Contexts, req \in MergeRequests :
        LET first == MergeReply(DB, ctx, req[1], req[2], 0)
            second == MergeReply(first.db, ctx, req[1], req[2], 0)
        IN  Succeeded(first) =>
              /\ second.response = Idempotent
              /\ second.db = first.db

\* C7: a merge call by an admin is rejected, and changes nothing, when the
\* lead or the target is not a voter of the caller's tenant (404), when the
\* lead's source is not manual (400), or when the target's source is not
\* import (400).
C7_MergeRejectsInvalid ==
    \A ctx \in ImportContexts, req \in MergeRequests :
        LET leadId == req[1]
            importedId == req[2]
            out == MergeReply(DB, ctx, leadId, importedId, 0)
            both == /\ InTenant(Uuid(leadId), ctx.orgId)
                    /\ InTenant(Uuid(importedId), ctx.orgId)
            wrong == \/ VoterOf(Uuid(leadId)).source # "manual"
                     \/ VoterOf(Uuid(importedId)).source # "import"
        IN  /\ ~both => /\ Threw(out) \/ out.response.status = 404
                        /\ Threw(out) <=> Malformed \in {leadId, importedId}
                        /\ out.db = DB
            /\ (both /\ wrong) => out.response.status = 400 /\ out.db = DB

\* A tenant has a lead with an interaction and an imported voter that could
\* be merged; the admin of another tenant asking for their merge gets 404,
\* and the tenant's own admin asking for the reverse merge, or for the merge
\* of the lead into itself, gets 400.
C7_Witness ==
    \E l \in voters, t \in voters, own \in ImportContexts, other \in ImportContexts :
        /\ l.source = "manual" /\ t.source = "import"
        /\ l.org_id = own.orgId /\ t.org_id = own.orgId /\ other.orgId # own.orgId
        /\ Referencing(interactions, own.orgId, l.id) # {}
        /\ MergeReply(DB, other, UuidText(l.id), UuidText(t.id), 0).response.status = 404
        /\ MergeReply(DB, own, UuidText(t.id), UuidText(l.id), 0).response.status = 400
        /\ MergeReply(DB, own, UuidText(l.id), UuidText(l.id), 0).response.status = 400
        /\ Succeeded(MergeReply(DB, own, UuidText(l.id), UuidText(t.id), 0))

\* C8: once a voter's merged_into_voter_id is set it never changes.
C8_MergedIntoNeverChanges ==
    [][\A v \in voters :
          v.merged_into_voter_id # NoVoter =>
            \A w \in voters' : w.id = v.id =>
                w.merged_into_voter_id = v.merged_into_voter_id]_vars

\* C9: after a first merge of a lead into a target succeeds, every
\* interaction and list membership of the tenant that referenced the lead
\* references the target and no other row has changed, the lead's
\* merged_into_voter_id is the target, the pair's open alerts are resolved and
\* no other alert has changed, and the counts in the response and in the one
\* new voter.merge audit row are the numbers of rows rewired.
C9_MergeRewires ==
    \A ctx \in Contexts, req \in MergeRequests :
        LET leadId == req[1]
            importedId == req[2]
            out == MergeReply(DB, ctx, leadId, importedId, 0)
            body == out.response.body
            l == Uuid(leadId)
            t == Uuid(importedId)
            hitI == {i \in interactions : i.org_id = ctx.orgId /\ i.voter_id = l}
            hitM == {m \in list_members : m.org_id = ctx.orgId /\ m.voter_id = l}
            open == {a \in voter_merge_alerts :
                        /\ a.org_id = ctx.orgId /\ a.lead_voter_id = l
                        /\ a.imported_voter_id = t /\ a.status = "open"}
        IN  (Succeeded(out) /\ out.response # Idempotent) =>
              /\ out.db.interactions =
                    (interactions \ hitI) \cup {[i EXCEPT !.voter_id = t] : i \in hitI}
              /\ out.db.list_members =
                    (list_members \ hitM) \cup {[m EXCEPT !.voter_id = t] : m \in hitM}
              /\ ~\E i \in out.db.interactions : i.org_id = ctx.orgId /\ i.voter_id = l
              /\ ~\E m \in out.db.list_members : m.org_id = ctx.orgId /\ m.voter_id = l
              /\ out.db.voters = (voters \ {VoterOf(l)}) \cup
                    {[VoterOf(l) EXCEPT !.merged_into_voter_id = t]}
              /\ out.db.alerts = (voter_merge_alerts \ open) \cup
                    {[a EXCEPT !.status = "resolved"] : a \in open}
              /\ body.moved_interactions = Cardinality(hitI)
              /\ body.moved_list_members = Cardinality(hitM)
              /\ out.db.audit_logs = audit_logs (+) SetToBag({
                    [action |-> "voter.merge", actor_user_id |-> ctx.userId,
                     target_org_id |-> ctx.orgId,
                     metadata |-> [lead_voter_id |-> leadId,
                                   imported_voter_id |-> importedId,
                                   moved_interactions |-> Cardinality(hitI),
                                   moved_list_members |-> Cardinality(hitM)]]})

\* A merge has rewired an interaction and a list membership and resolved the
\* pair's alert.
C9_Witness ==
    \E l \in voters, row \in BagToSet(audit_logs) :
        /\ row.action = "voter.merge"
        /\ AuditCount("voter.merge") = 1
        /\ Uuid(row.metadata.lead_voter_id) = l.id
        /\ row.metadata.moved_interactions = 1
        /\ row.metadata.moved_list_members = 1
        /\ l.merged_into_voter_id = Uuid(row.metadata.imported_voter_id)
        /\ \E i \in interactions : i.voter_id = l.merged_into_voter_id
        /\ \E m \in list_members : m.voter_id = l.merged_into_voter_id
        /\ \E a \in voter_merge_alerts :
              /\ a.lead_voter_id = l.id
              /\ a.imported_voter_id = l.merged_into_voter_id
              /\ a.status = "resolved"

\* UNIQUE(org_id, lead_voter_id, imported_voter_id) of voter_merge_alerts
UniqueAlerts(alerts) ==
    \A a \in alerts, b \in alerts :
        (a.org_id = b.org_id /\ a.lead_voter_id = b.lead_voter_id
         /\ a.imported_voter_id = b.imported_voter_id) => a.id = b.id

\* C10: a tenant never has two alerts for one (lead, imported voter) pair,
\* and the detection run by creating a lead or by setting a lead's phone
\* leaves every alert there is as it is, whatever its status.
C10_OneAlertPerPair ==
    /\ UniqueAlerts(voter_merge_alerts)
    /\ \A ctx \in Contexts, id \in RequestIds, v \in VoterPatches :
          LET out == UpdateVoterReply(DB, ctx, id, v)
          IN  UniqueAlerts(out.db.alerts) /\ voter_merge_alerts \subseteq out.db.alerts
    /\ \A ctx \in Contexts, v \in LeadBodies :
          LET out == CreateVoterReply(DB, ctx, v)
          IN  UniqueAlerts(out.db.alerts) /\ voter_merge_alerts \subseteq out.db.alerts

\* A lead's alert has been dismissed, the lead's phone has been set again to
\* the phone of the alert's imported voter, and there is still one alert.
C10_Witness ==
    \E a \in voter_merge_alerts, l \in voters :
        /\ a.status = "dismissed"
        /\ l.id = a.lead_voter_id /\ l.phone = Phone1
        /\ a.imported_voter_id \in {iv.id : iv \in PhoneMatches(voters, a.org_id, Phone1)}
        /\ AuditCount("voter.update") = 1
        /\ \E row \in BagToSet(audit_logs) :
              row.action = "voter.update" /\ row.metadata.voter_id = l.id

---------------------------------------------------------------------------
(***************************************************************************)
(* Alert lifecycle.                                                        *)
(***************************************************************************)

\* C11: an alert that is resolved or dismissed keeps that status in every
\* step (PATCH /api/v1/merge-alerts/:id with any status, a merge, a
\* detection that finds the pair again).
C11_AlertStatusFinal ==
    [][\A a \in voter_merge_alerts :
          a.status \in {"resolved", "dismissed"} =>
             \E b \in voter_merge_alerts' : b.id = a.id /\ b.status = a.status]_vars

\* The phones a request writes: as the voter file has them, plain and with
\* blanks around.
WrittenPhones == { Phone1, <<" ">> \o Phone1 \o <<" ">> }

\* Import-sourced voters of the tenant whose phone equals the written phone.
ExactMatches(vs, orgId, phone) ==
    {v \in vs : v.org_id = orgId /\ v.source = "import" /\ v.phone = phone}

\* In database db every voter of candidates has an alert with the lead.
Alerted(db, orgId, leadId, candidates) ==
    \A v \in candidates :
        \E a \in db.alerts : /\ a.org_id = orgId
                             /\ a.lead_voter_id = leadId
                             /\ a.imported_voter_id = v.id

\* The alerts a handler added pair the lead with import-sourced voters of the
\* caller's tenant, and the alerts there were are as they were.
OnlyTenantImports(before, after, orgId, leadId) ==
    /\ before.alerts \subseteq after.alerts
    /\ \A a \in after.alerts \ before.alerts :
          /\ a.org_id = orgId
          /\ a.lead_voter_id = leadId
          /\ a.status = "open"
          /\ \E v \in after.voters : /\ v.id = a.imported_voter_id
                                     /\ v.org_id = orgId
                                     /\ v.source = "import"

\* The detection after POST /api/v1/voters with a non-empty phone.
CreateDetects(ctx, phone) ==
    LET after == CreateVoterReply(DB, ctx, [firstName |-> <<"L">>, phone |-> phone]).db
        leadId == NewId(voters)
    IN  /\ Alerted(after, ctx.orgId, leadId, ExactMatches(after.voters, ctx.orgId, phone))
        /\ OnlyTenantImports(DB, after, ctx.orgId, leadId)

\* The detection after PATCH /api/v1/voters/:id that writes a non-empty phone.
PatchDetects(ctx, id, phone) ==
    LET after == UpdateVoterReply(DB, ctx, id, [phone |-> phone]).db
        found == SelectVoter(DB, id, ctx.orgId)
    IN  /\ OnlyTenantImports(DB, after, ctx.orgId, id)
        /\ \A existing \in found :
              IF existing.source = "manual"
              THEN Alerted(after, ctx.orgId, id,
                           ExactMatches(after.voters, ctx.orgId, phone))
              ELSE after.alerts = DB.alerts

\* C12: after a lead is created with a non-empty phone, or a manual lead's
\* phone is set to a non-empty value by PATCH, every import-sourced voter of
\* the tenant whose phone equals the written phone has an alert with the
\* lead; the alerts added are for import-sourced voters of the tenant only,
\* none is added when the patched voter is import-sourced, and no earlier
\* alert is closed or removed.
C12_DetectionOnPhoneWrite ==
    /\ \A ctx \in Contexts, phone \in WrittenPhones : CreateDetects(ctx, phone)
    /\ \A ctx \in AdminContexts, id \in VoterIds, phone \in WrittenPhones :
          PatchDetects(ctx, id, phone)

\* The open alerts of a (lead, imported) pair in database db.
OpenAlertsOf(db, orgId, leadId, importedId) ==
    {a \in db.alerts : /\ a.org_id = orgId
                       /\ a.lead_voter_id = leadId
                       /\ a.imported_voter_id = importedId
                       /\ a.status = "open"}

\* POST /api/v1/voters with body v, twice in a row, in a tenant that has
\* import-sourced voters with the body's phone: the first call leaves exactly
\* one open alert for each pair, the second adds no alert.
SameLeadTwice(ctx, v) ==
    LET first == CreateVoterReply(DB, ctx, v).db
        second == CreateVoterReply(first, ctx, v).db
        leadId == NewId(voters)
        matches == ExactMatches(voters, ctx.orgId, v.phone)
    IN  matches # {} =>
          /\ \A m \in matches :
                Cardinality(OpenAlertsOf(first, ctx.orgId, leadId, m.id)) = 1
          /\ second.alerts = first.alerts

\* C13: in a tenant with an import-sourced voter with phone P, creating a
\* manual lead with phone P gives exactly one open alert for that pair, and
\* a second POST /api/v1/voters with the same body gives no second alert.
C13_SecondLeadNoSecondAlert ==
    \A ctx \in Contexts :
        SameLeadTwice(ctx, [firstName |-> <<"L", "E", "E">>, phone |-> Phone1])

---------------------------------------------------------------------------
(***************************************************************************)
(* Reads: GET /voters, /voters/:id, /jobs/:id, /merge-alerts and           *)
(* /merge-alerts/count.  A list is the set of its rows: LIMIT, OFFSET and  *)
(* ORDER BY are left out (the tables hold fewer rows than the smallest     *)
(* limit), and so is the q filter of GET /voters.                          *)
(***************************************************************************)

NotFound == Respond(404, [error |-> "Not found"])

\* The SELECT of GET /api/v1/jobs/:id without its org_id condition.
SelectJobAnyTenant(db, id, orgId) == {j \in DOMAIN db.jobs : j = id}

\* SELECT * FROM import_jobs WHERE id = $1 AND org_id = $2
SelectJob(db, id, orgId) ==
    {j \in DOMAIN db.jobs : j = id /\ db.jobs[j].org_id = orgId}

\* GET /api/v1/jobs/:id
GetJob(db, ctx, id) ==
    IF SelectJob(db, id, ctx.orgId) = {} THEN NotFound
    ELSE Respond(200, [id |-> id, row |-> db.jobs[id]])

\* li.last_interaction_status of the LEFT JOIN: the result code of the
\* tenant's latest interaction with the voter (ids grow with time), NULL
\* when it has none.
LastInteractionStatus(db, orgId, voterId) ==
    LET of == {i \in db.interactions : i.org_id = orgId /\ i.voter_id = voterId}
    IN  IF of = {} THEN Null
        ELSE << (CHOOSE i \in of : \A k \in of : k.id <= i.id).result_code >>

\* A row of GET /api/v1/voters after mapVoter.
ListedVoter(db, v) ==
    [voter |-> MapVoter(v),
     lastInteractionStatus |-> Or(LastInteractionStatus(db, v.org_id, v.id), Undef)]

\* GET /api/v1/voters
ListVoters(db, ctx) ==
    Respond(200, [voters |-> {ListedVoter(db, v) : v \in {x \in db.voters : x.org_id = ctx.orgId}}])

\* GET /api/v1/voters/:id
GetVoter(db, ctx, id) ==
    IF SelectVoter(db, id, ctx.orgId) = {} THEN NotFound
    ELSE Respond(200, MapVoter(CHOOSE row \in SelectVoter(db, id, ctx.orgId) : TRUE))

\* GET /api/v1/merge-alerts?status=... (admin): the tenant's alerts with
\* that status, joined with lead and imported voter of the same tenant.
ListMergeAlerts(db, ctx, status) ==
    IF ctx.role # "admin" THEN Forbidden
    ELSE Respond(200,
           [alerts |->
              { [alert |-> t[1], lead_phone |-> t[2].phone,
                 imported_external_id |-> t[3].external_id, imported_phone |-> t[3].phone] :
                t \in { x \in db.alerts \X db.voters \X db.voters :
                          /\ x[1].org_id = ctx.orgId /\ x[1].status = status
                          /\ x[2].id = x[1].lead_voter_id /\ x[2].org_id = x[1].org_id
                          /\ x[3].id = x[1].imported_voter_id /\ x[3].org_id = x[1].org_id } }])

\* GET /api/v1/merge-alerts/count (admin)
CountMergeAlerts(db, ctx) ==
    IF ctx.role # "admin" THEN Forbidden
    ELSE Respond(200, [open_count |->
            Cardinality({a \in db.alerts : a.org_id = ctx.orgId /\ a.status = "open"})])

\* Every answer the reads give a context on database db, for voter ids ids.
Reads(db, ctx, ids) ==
    [ voters |-> ListVoters(db, ctx),
      voter  |-> [id \in ids |-> GetVoter(db, ctx, id)],
      job    |-> [j \in JobIds |-> GetJob(db, ctx, j)],
      alerts |-> [s \in AlertStatuses |-> ListMergeAlerts(db, ctx, s)],
      count  |-> CountMergeAlerts(db, ctx) ]

\* Database db without the voters, jobs, interactions and alerts of the
\* tenants other than orgId.
OwnData(db, orgId) ==
    [db EXCEPT !.voters = {v \in @ : v.org_id = orgId},
               !.jobs = [j \in {k \in DOMAIN @ : @[k].org_id = orgId} |-> @[j]],
               !.interactions = {i \in @ : i.org_id = orgId},
               !.alerts = {a \in @ : a.org_id = orgId}]

\* The tenants of the rows an answer of Reads returns.
ReturnedOrgs(r) ==
    {x.voter.orgId : x \in r.voters.body.voters}
    \cup {r.voter[id].body.orgId : id \in {i \in DOMAIN r.voter : r.voter[i].status = 200}}
    \cup {r.job[j].body.row.org_id : j \in {k \in DOMAIN r.job : r.job[k].status = 200}}
    \cup UNION { {x.alert.org_id : x \in r.alerts[s].body.alerts} :
                 s \in {t \in DOMAIN r.alerts : r.alerts[t].status = 200} }

\* C14: no read with a tenant's context returns a voter, job or alert of
\* another tenant, and what the reads return is what they would return if
\* the other tenants' data were not there.
C14_TenantIsolation ==
    \A ctx \in Contexts :
        /\ ReturnedOrgs(Reads(DB, ctx, RequestIds)) \subseteq {ctx.orgId}
        /\ Reads(DB, ctx, RequestIds) = Reads(OwnData(DB, ctx.orgId), ctx, RequestIds)

\* Tenant o1 has voters, a finished job and an alert, tenant o2's admin
\* reads: nothing of it is returned, while o1's admin is returned all of it.
C14_Witness ==
    LET a == CHOOSE c \in AdminContexts : c.orgId = "o1"
        b == CHOOSE c \in AdminContexts : c.orgId = "o2"
        ra == Reads(DB, a, RequestIds)
        rb == Reads(DB, b, RequestIds)
    IN  /\ \E v \in voters : v.org_id = "o1"
        /\ \E j \in DOMAIN import_jobs : import_jobs[j].org_id = "o1"
        /\ \E al \in voter_merge_alerts : al.org_id = "o1"
        /\ \E i \in interactions : i.org_id = "o1"
        /\ ra.voters.body.voters # {} /\ ra.count.body.open_count > 0
        /\ \E j \in JobIds : ra.job[j].status = 200
        /\ rb.voters.body.voters = {} /\ rb.count.body.open_count = 0
        /\ \A id \in VoterIds : rb.voter[id] = NotFound
        /\ \A j \in JobIds : rb.job[j] = NotFound
        /\ \A s \in AlertStatuses : rb.alerts[s].body.alerts = {}

\* C15: every interaction, list membership and merge alert references
\* voters of its own tenant only.
C15_NoCrossTenantReference ==
    /\ \A i \in interactions : \A v \in voters : v.id = i.voter_id => v.org_id = i.org_id
    /\ \A lm \in list_members : \A v \in voters : v.id = lm.voter_id => v.org_id = lm.org_id
    /\ \A a \in voter_merge_alerts :
          \A v \in voters :
              v.id \in {a.lead_voter_id, a.imported_voter_id} => v.org_id = a.org_id

---------------------------------------------------------------------------
(***************************************************************************)
(* The job record while a run is in progress.                              *)
(***************************************************************************)

\* The context of the user who submitted the job a payload belongs to.
SubmitterOf(p) == [orgId |-> p.orgId, userId |-> p.userId, role |-> "admin"]

\* The job row as the run of worker w has written it in its transaction.
JobAsWritten(w) == View(Session(DB, run[w].conn)).jobs[run[w].payload.jobId]

\* C16: while a run is between marking its job processing and returning, GET
\* /api/v1/jobs/:id on another connection answers status 'processing' and
\* the progress the run wrote last.
C16_LiveProgress ==
    \A w \in DOMAIN run :
        run[w].pc = "rows" =>
            LET seen == GetJob(DB, SubmitterOf(run[w].payload), run[w].payload.jobId).body.row
            IN  /\ seen.status = "processing"
                /\ "progress" \in DOMAIN seen.metadata
                /\ seen.metadata.progress = JobAsWritten(w).metadata.progress

---------------------------------------------------------------------------
(***************************************************************************)
(* A job large enough to pass a progress checkpoint, run by one worker     *)
(* that may fail or die at any point.                                      *)
(***************************************************************************)

\* Rows of the large job: one more than a checkpoint takes.
BulkSize == 251

DigitChars == << "0", "1", "2", "3", "4", "5", "6", "7", "8", "9" >>

\* The external id of the n-th row of the large job: E000, E001, ...
BulkId(n) ==
    << "E", DigitChars[((n \div 100) % 10) + 1], DigitChars[((n \div 10) % 10) + 1],
       DigitChars[(n % 10) + 1] >>

BulkRows ==
    [n \in 1..BulkSize |->
        [external_id |-> BulkId(n), geom_lat |-> <<"3", "0">>, geom_lng |-> <<"-", "9", "0">>]]

\* The worker process dies inside the try block (or its connection is
\* lost): no catch block runs, and the store discards the transaction the
\* connection had open.
Crash(w) ==
    /\ run[w].pc \in {"begin", "rows"}
    /\ run' = [run EXCEPT ![w] = [@ EXCEPT !.pc = "crashed", !.conn = Idle]]
    /\ UNCHANGED << import_jobs, voters, platform_events, audit_logs, interactions,
                    walk_lists, list_members, voter_merge_alerts, jobData, queue, deliveries >>

\* The large job has been submitted by tenant o1's admin and waits in the queue.
CheckpointInit ==
    LET ctx == CHOOSE c \in ImportContexts : c.orgId = "o1" IN
    /\ import_jobs = (1 :> NewJobRow(ctx, BulkRows))
    /\ jobData = (1 :> JobPayload(1, ctx, BulkRows))
    /\ queue = {1}
    /\ deliveries = (1 :> 0)
    /\ voters = {}
    /\ platform_events = <<>>
    /\ audit_logs = EmptyBag
    /\ interactions = {}
    /\ walk_lists = {}
    /\ list_members = {}
    /\ voter_merge_alerts = {}
    /\ run = [w \in Workers |-> NotRunning]

CheckpointNext ==
    \/ \E w \in DOMAIN run, j \in queue : Dispatch(w, j)
    \/ \E w \in DOMAIN run : StepBegin(w)
    \/ \E w \in DOMAIN run, rlat \in Randoms, rlng \in Randoms : StepRow(w, rlat, rlng)
    \/ \E w \in DOMAIN run : StepFinalize(w)
    \/ \E w \in DOMAIN run, message \in Faults : Throw(w, message)
    \/ \E w \in DOMAIN run : StepCatch(w)
    \/ \E w \in DOMAIN run : Crash(w)

CheckpointSpec == CheckpointInit /\ [][CheckpointNext]_vars

\* The rows a run had upserted when it wrote its last progress checkpoint.
Checkpointed(r) ==
    SubSeq(Importable(r.rows), 1, (r.importedCount \div ProgressEvery) * ProgressEvery)

\* The committed voter store holds a voter for each of rows, for the tenant.
StoredFor(orgId, rows) ==
    \A n \in 1..Len(rows) :
        \E v \in voters : v.org_id = orgId /\ v.external_id = ExternalIdOf(rows[n])

\* C17: after a worker died in the row-write phase of a job, the job record
\* has status 'processing' and the voters upserted up to the last progress
\* checkpoint are committed.
C17_CrashLeavesProcessing ==
    \A w \in DOMAIN run :
        (run[w].pc = "crashed" /\ run[w].rows # <<>>) =>
            /\ import_jobs[run[w].payload.jobId].status = "processing"
            /\ StoredFor(run[w].payload.orgId, Checkpointed(run[w]))

\* C18: once a job that had passed a progress checkpoint is marked failed,
\* the voters written before that checkpoint are in the voter store.
C18_FailureKeepsCheckpoints ==
    \A w \in DOMAIN run :
        (run[w].pc = "threw" /\ run[w].importedCount >= ProgressEvery) =>
            /\ import_jobs[run[w].payload.jobId].status = "failed"
            /\ StoredFor(run[w].payload.orgId, Checkpointed(run[w]))

---------------------------------------------------------------------------
(***************************************************************************)
(* Running a job's payload again.                                          *)
(***************************************************************************)

\* processImportJob run twice in a row on payload p from the committed
\* database, with the draws of Math.random() of each run: when both runs
\* complete, the voters after the second run are those after the first.
SameAfterRerun(p, draws) ==
    \A first \in { ProcessImportJob(DB, p, draws[1], draws[2]) } :
        \A second \in { ProcessImportJob(first, p, draws[3], draws[4]) } :
            (first.jobs[p.jobId].status = "completed"
             /\ second.jobs[p.jobId].status = "completed")
                => second.voters = first.voters

\* C19: re-running processImportJob with the same rows for the same tenant
\* leaves every voter with the stored data it had after the first run,
\* geocoordinates included, also for rows without geocoordinates.
C19_RerunConverges ==
    \A j \in DOMAIN jobData :
        \A draws \in Randoms \X Randoms \X Randoms \X Randoms :
            SameAfterRerun(jobData[j], draws)

\* ---------------------------------------------------------------------
\* Two worker processes running import jobs of one tenant at the same time
\* ---------------------------------------------------------------------

\* Two processes each started with startWorker(): each takes one job at a time.
WorkerProcesses == {"w1", "w2"}

\* Bodies of the second job: RowFull's and RowOther's external ids with
\* other fields, in the opposite and in the same order.
OverlappingFiles == { << RowTwin, RowSparse >>, << RowSparse, RowTwin >> }

\* The store's answer to a cycle of lock waits.
DeadlockError == <<"40P01 deadlock detected">>

\* The runs that the next statement of worker w waits for.
Blocked(w) ==
    LET r == run[w]
        st == UpsertStmt(r.payload, r.rows[r.idx + 1], "r0", "r0")
    IN  IF r.pc = "rows" /\ r.idx < Len(r.rows)
        THEN IF MissingExternalId(r.rows[r.idx + 1])
                \/ StmtError(View(Session(DB, r.conn)), st) # Null
             THEN {}
             ELSE WaitsFor(w, st)
        ELSE {}

\* Worker w's upsert waits for a run that waits for w: the store ends the
\* cycle by rejecting the statement of one of the two, which lands in that
\* run's catch block.
DeadlockDetected(w) ==
    /\ \E u \in Blocked(w) : w \in Blocked(u)
    /\ run' = [run EXCEPT ![w] = [@ EXCEPT !.pc = "catch", !.error = DeadlockError]]
    /\ UNCHANGED << import_jobs, voters, platform_events, audit_logs, interactions,
                    walk_lists, list_members, voter_merge_alerts, jobData, queue, deliveries >>

\* Tenant o1's admin has submitted two jobs on the same external ids; both
\* wait in the queue and both workers are free.
ConcurrentInit ==
    LET ctx == CHOOSE c \in ImportContexts : c.orgId = "o1" IN
    \E second \in OverlappingFiles :
        /\ import_jobs = (1 :> NewJobRow(ctx, << RowFull, RowOther >>)
                          @@ 2 :> NewJobRow(ctx, second))
        /\ jobData = (1 :> JobPayload(1, ctx, << RowFull, RowOther >>)
                      @@ 2 :> JobPayload(2, ctx, second))
        /\ queue = {1, 2}
        /\ deliveries = (1 :> 0 @@ 2 :> 0)
        /\ voters = {}
        /\ platform_events = <<>>
        /\ audit_logs = EmptyBag
        /\ interactions = {}
        /\ walk_lists = {}
        /\ list_members = {}
        /\ voter_merge_alerts = {}
        /\ run = [w \in WorkerProcesses |-> NotRunning]

ConcurrentNext ==
    \/ \E w \in DOMAIN run, j \in queue : Dispatch(w, j)
    \/ \E w \in DOMAIN run : StepBegin(w)
    \/ \E w \in DOMAIN run, rlat \in Randoms, rlng \in Randoms : StepRow(w, rlat, rlng)
    \/ \E w \in DOMAIN run : StepFinalize(w)
    \/ \E w \in DOMAIN run : DeadlockDetected(w)
    \/ \E w \in DOMAIN run : StepCatch(w)

ConcurrentSpec == ConcurrentInit /\ [][ConcurrentNext]_vars

\* C20: two import jobs of one tenant on overlapping external ids, run at
\* the same time in any interleaving and row order: neither job fails, and
\* once both have completed the tenant has exactly one voter per external
\* id, holding the fields written by the job that committed last.
C20_ConcurrentImportsConverge ==
    /\ \A j \in DOMAIN import_jobs : import_jobs[j].status # "failed"
    /\ (\A j \in DOMAIN import_jobs : import_jobs[j].status = "completed") =>
          LET done == {k \in DOMAIN platform_events : CompletedAt(k)}
              last == platform_events[Max(done)].metadata.job_id
              rows == jobData[last].voters
          IN  \A n \in 1..Len(rows) :
                  LET e == ExternalIdOf(rows[n])
                      hits == {v \in voters : v.org_id = "o1" /\ v.external_id = e}
                  IN  /\ Cardinality(hits) = 1
                      /\ \A v \in hits : HoldsRow(v, "o1", LastRowWith(rows, e))

---------------------------------------------------------------------------
(***************************************************************************)
(* The source of a voter.                                                  *)
(***************************************************************************)

\* Bodies of PATCH /api/v1/voters/:id that name an external id and a source.
SourcePatches ==
    VoterPatches
    \cup { [externalId |-> A1, firstName |-> <<"N", "E", "W">>, source |-> <<"i", "m", "p", "o", "r", "t">>] }

\* The id the store gives the next row of import_jobs in database db.
FreshJobId(db) == NewId({[id |-> j] : j \in DOMAIN db.jobs})

\* A further import job of body, submitted by ctx and run on database db.
Reimport(db, ctx, body, rlat, rlng) ==
    LET jobId == FreshJobId(db)
    IN  ProcessImportJob([db EXCEPT !.jobs = @ @@ (jobId :> NewJobRow(ctx, body))],
                         JobPayload(jobId, ctx, body), rlat, rlng)

\* Every voter of before is in after with the source it had.
SourceKept(before, after) ==
    \A v \in before.voters : \E u \in after.voters : u.id = v.id /\ u.source = v.source

\* C21: a voter's source never changes after the row is created: no PATCH
\* /api/v1/voters/:id, no import upsert that conflicts on the voter's
\* (tenant, external id), and no merge alters it.
C21_SourceImmutable ==
    /\ \A ctx \in AdminContexts, id \in VoterIds, v \in SourcePatches :
          \A patched \in { UpdateVoterReply(DB, ctx, id, v).db } :
              /\ SourceKept(DB, patched)
              /\ \A body \in VoterFiles :
                    SourceKept(patched, Reimport(patched, ctx, body, "r0", "r0"))
    /\ \A ctx \in AdminContexts, pair \in MergePairs(VoterIds), failAt \in MergeFaults :
          SourceKept(DB, MergeReply(DB, ctx, pair[1], pair[2], failAt).db)

\* A manual lead that was patched and merged, and that takes external id A1
\* by a PATCH: the import of A1 then conflicts on the lead, rewrites its
\* name, and leaves it a manual lead.
C21_Witness ==
    \E lead \in voters, ctx \in AdminContexts, v \in SourcePatches :
        /\ lead.source = "manual"
        /\ lead.merged_into_voter_id # NoVoter
        /\ AuditCount("voter.update") = 1
        /\ \A patched \in { UpdateVoterReply(DB, ctx, lead.id, v).db } :
              /\ \E u \in patched.voters : u.id = lead.id /\ u.external_id = A1
              /\ \E u \in Reimport(patched, ctx, << RowFull, RowTwin >>, "r0", "r0").voters :
                    /\ u.id = lead.id
                    /\ u.first_name = RowFull.first_name
                    /\ u.source = "manual"

---------------------------------------------------------------------------
(***************************************************************************)
(* What a completed job has recorded.                                      *)
(***************************************************************************)

\* The counters of worker w's run, as the result column holds them.
RunResult(w) ==
    [imported_count |-> run[w].importedCount,
     skipped_missing_external_id |-> run[w].skippedMissingExternalId,
     total_rows |-> run[w].totalRows]

\* The import.completed events of job j.
CompletedEvents(j) ==
    {k \in DOMAIN platform_events :
        IF CompletedAt(k) THEN platform_events[k].metadata.job_id = j ELSE FALSE}

\* The import.success audit records of job j.
SuccessAudits(j) ==
    {row \in BagToSet(audit_logs) :
        IF row.action = "import.success" THEN row.metadata.job_id = j ELSE FALSE}

\* Job j's result counts its rows, its completed event and its audit record
\* carry the same counts, and each of its rows with an external id is a voter.
CompletionRecorded(j) ==
    LET res == import_jobs[j].result
        rows == jobData[j].voters
    IN  /\ res.total_rows = Len(rows)
        /\ res.imported_count = Len(Importable(rows))
        /\ res.skipped_missing_external_id = Len(rows) - Len(Importable(rows))
        /\ \E k \in CompletedEvents(j) :
              platform_events[k].metadata =
                  [job_id |-> j, count |-> res.imported_count,
                   skipped_missing_external_id |-> res.skipped_missing_external_id,
                   total_rows |-> res.total_rows]
        /\ \E row \in SuccessAudits(j) : row.metadata.count = res.imported_count
        /\ StoredFor(jobData[j].orgId, Importable(rows))

\* The step makes a run's completion visible whole, or nothing of one.
VisibleTogether ==
    /\ \A w \in DOMAIN run :
          Commits(w) =>
              LET j == run[w].payload.jobId
              IN  /\ import_jobs'[j].status = "completed"
                  /\ import_jobs'[j].result = RunResult(w)
                  /\ Cardinality(CompletedEvents(j)') = Cardinality(CompletedEvents(j)) + 1
                  /\ \E row \in SuccessAudits(j)' :
                        CopiesIn(row, audit_logs') = CopiesIn(row, audit_logs) + 1
    /\ (\A w \in DOMAIN run : ~Commits(w)) =>
          /\ voters' = voters
          /\ \A j \in DOMAIN import_jobs :
                /\ import_jobs'[j].status = "completed" => import_jobs'[j] = import_jobs[j]
                /\ CompletedEvents(j)' = CompletedEvents(j)
                /\ \A row \in SuccessAudits(j)' :
                      CopiesIn(row, audit_logs') = CopiesIn(row, audit_logs)

\* C22: whenever a job's committed status is completed, its result holds the
\* imported, skipped and total row counts of the run, and an import.completed
\* event and an import.success audit record of the job exist; the status,
\* the result, the event, the audit record and the voters of a run become
\* visible in one step, never one without the others.
C22_CompletionVisibleTogether ==
    [][/\ VisibleTogether
       /\ \A j \in DOMAIN import_jobs' :
             import_jobs'[j].status = "completed" => CompletionRecorded(j)']_vars

\* A job that skipped a row and imported one is completed, with its event,
\* its audit record and its voter.
C22_Witness ==
    \E j \in DOMAIN import_jobs :
        /\ import_jobs[j].status = "completed"
        /\ import_jobs[j].result.skipped_missing_external_id = 2
        /\ CompletedEvents(j) # {}
        /\ SuccessAudits(j) # {}
        /\ voters # {}

---------------------------------------------------------------------------
(***************************************************************************)
(* An import of rows that are all new to the tenant.                       *)
(***************************************************************************)

\* Bodies of rows with distinct external ids: two plain rows, one row, and a
\* row whose age is not a number beside a plain row.
FreshFiles == { << RowFull, RowOther >>, << RowOther >>, << RowFull, RowBadAge >> }

\* The external id the upsert of row is keyed on.
KeyOf(row) == VoterParams("o1", row, "r0", "r0").external_id

\* All of rows carry an external id, no two the same, none a voter of the
\* tenant in db.
DistinctNewIds(db, orgId, rows) ==
    /\ \A n \in 1..Len(rows) : ~MissingExternalId(rows[n])
    /\ \A m, n \in 1..Len(rows) : m # n => KeyOf(rows[m]) # KeyOf(rows[n])
    /\ \A n \in 1..Len(rows) :
          ~\E v \in db.voters : v.org_id = orgId /\ v.external_id = KeyOf(rows[n])

\* No row of rows has an age that is not a number.
NumericAges(rows) ==
    \A n \in 1..Len(rows) : VoterParams("o1", rows[n], "r0", "r0").age # NaN

\* No run is in progress: the states in which the worker takes a job.
WorkersAtRest == \A w \in DOMAIN run : run[w].pc \in {"idle", "returned", "threw", "crashed"}

\* The run of a new pending job of rows on db completes, counts every row
\* as imported, and leaves the tenant with one more voter per row.
ImportsAll(db, ctx, rows, r) ==
    \A after \in { Reimport(db, ctx, rows, r, r) } :
        /\ after.jobs[FreshJobId(db)].status = "completed"
        /\ after.jobs[FreshJobId(db)].result.imported_count = Len(rows)
        /\ Cardinality({v \in after.voters : v.org_id = ctx.orgId})
             = Cardinality({v \in db.voters : v.org_id = ctx.orgId}) + Len(rows)

---------------------------------------------------------------------------
(***************************************************************************)
(* POST /api/v1/interactions sent again, one request after another or      *)
(* several at once.  Each request runs its statements one at a time on a   *)
(* connection of its own; run holds each request's position.               *)
(***************************************************************************)

\* The requests in flight or answered.
Retries == {"q1", "q2", "q3"}

\* Who sends them: a canvasser of tenant o1 and the admin of tenant o2.
RetryContexts == { c \in Contexts : c.userId \in {"u3", "u2"} }

\* Bodies that pass the handler's checks and carry one client_interaction_uuid:
\* the first attempt, the attempt with other notes, survey answers and voter,
\* and an attempt that names no voter of the store.
RetryBodies ==
    { [client_interaction_uuid |-> "c1", voter_id |-> 1, result_code |-> "contacted",
       notes |-> <<"1">>, survey_responses |-> <<"Y">>],
      [client_interaction_uuid |-> "c1", voter_id |-> 2, result_code |-> "refused",
       notes |-> <<"2">>, survey_responses |-> Null],
      [client_interaction_uuid |-> "c1", voter_id |-> 9, result_code |-> "contacted",
       notes |-> Null, survey_responses |-> Null] }

\* A request not yet sent.
NotSent ==
    [pc |-> "idle", conn |-> Idle, ctx |-> CHOOSE c \in RetryContexts : TRUE,
     body |-> CHOOSE b \in RetryBodies : TRUE, inserted |-> FALSE, interactionId |-> 0,
     status |-> 0, rows |-> {}, threw |-> Null]

\* The interactions the open transaction of request q has inserted.
PendingInteractions(q) ==
    {run[q].conn.ops[n].row :
        n \in {k \in DOMAIN run[q].conn.ops : run[q].conn.ops[k].op = "insert_interaction"}}

\* crypto.randomUUID(): an id no row, committed or pending, has.
RandomInteractionId ==
    NewId(interactions \cup UNION {PendingInteractions(q) : q \in DOMAIN run})

\* The requests whose uncommitted insert holds the key that q's insert would
\* take: the store makes q's statement wait for their transactions to end.
InsertWaitsFor(q) ==
    {u \in DOMAIN run \ {q} :
        \E i \in PendingInteractions(u) :
            /\ i.org_id = run[q].ctx.orgId
            /\ i.client_interaction_uuid = run[q].body.client_interaction_uuid}

\* The request arrives; pool.connect(); BEGIN.
PostInteraction(q, ctx, body) ==
    /\ run[q].pc = "idle"
    /\ run' = [run EXCEPT ![q] = [NotSent EXCEPT !.pc = "insert", !.ctx = ctx, !.body = body,
                                     !.conn = Begin(Session(DB, Idle)).conn]]
    /\ UNCHANGED << import_jobs, voters, platform_events, audit_logs, interactions,
                    walk_lists, list_members, voter_merge_alerts, jobData, queue, deliveries >>

\* INSERT INTO interactions ... ON CONFLICT DO NOTHING RETURNING id; on an
\* error ROLLBACK and throw.
StepInsertInteraction(q) ==
    LET r == run[q]
        row == [id |-> RandomInteractionId, org_id |-> r.ctx.orgId, user_id |-> r.ctx.userId,
                voter_id |-> r.body.voter_id, result_code |-> r.body.result_code,
                notes |-> r.body.notes,
                client_interaction_uuid |-> r.body.client_interaction_uuid,
                survey_responses |-> Null]
        st == [op |-> "insert_interaction", row |-> row]
        sess == Session(DB, r.conn)
    IN  /\ r.pc = "insert"
        /\ InsertWaitsFor(q) = {}
        /\ run' = [run EXCEPT ![q] =
              IF StmtError(View(sess), st) # Null
              THEN [r EXCEPT !.pc = "done", !.conn = Idle, !.threw = StmtError(View(sess), st)]
              ELSE IF RowCount(View(sess), st) = 1
              THEN [r EXCEPT !.pc = "survey", !.conn = Exec(sess, st).conn,
                             !.inserted = TRUE, !.interactionId = row.id]
              ELSE [r EXCEPT !.pc = "select"]]
        /\ UNCHANGED << import_jobs, voters, platform_events, audit_logs, interactions,
                        walk_lists, list_members, voter_merge_alerts, jobData, queue, deliveries >>

\* if (body.survey_responses ...) INSERT INTO survey_responses ...
StepInsertSurvey(q) ==
    LET r == run[q]
        st == [op |-> "insert_survey_responses", org_id |-> r.ctx.orgId,
               interaction_id |-> r.interactionId, responses |-> r.body.survey_responses]
    IN  /\ r.pc = "survey"
        /\ run' = [run EXCEPT ![q] =
              IF r.body.survey_responses # Null
              THEN [r EXCEPT !.pc = "commit", !.conn = Exec(Session(DB, r.conn), st).conn]
              ELSE [r EXCEPT !.pc = "commit"]]
        /\ UNCHANGED << import_jobs, voters, platform_events, audit_logs, interactions,
                        walk_lists, list_members, voter_merge_alerts, jobData, queue, deliveries >>

\* else: SELECT id FROM interactions WHERE org_id = $1 AND
\* client_interaction_uuid = $2 LIMIT 1
StepSelectExisting(q) ==
    LET r == run[q]
        existing == {i \in View(Session(DB, r.conn)).interactions :
                        /\ i.org_id = r.ctx.orgId
                        /\ i.client_interaction_uuid = r.body.client_interaction_uuid}
    IN  /\ r.pc = "select"
        /\ run' = [run EXCEPT ![q] =
              [r EXCEPT !.pc = "commit",
                        !.interactionId = IF existing = {} THEN 0
                                          ELSE (CHOOSE i \in existing : TRUE).id]]
        /\ UNCHANGED << import_jobs, voters, platform_events, audit_logs, interactions,
                        walk_lists, list_members, voter_merge_alerts, jobData, queue, deliveries >>

\* COMMIT; release the connection.
StepCommitInteraction(q) ==
    LET r == run[q]
    IN  /\ r.pc = "commit"
        /\ Store(Commit(Session(DB, r.conn)).db)
        /\ run' = [run EXCEPT ![q] = [r EXCEPT !.pc = "respond", !.conn = Idle]]
        /\ UNCHANGED << jobData, queue, deliveries >>

\* The final SELECT of the interaction joined to its survey responses, and
\* the answer: 500 without an id, else 201 if this request inserted, else 200.
StepAnswerInteraction(q) ==
    LET r == run[q]
        found == {i \in interactions : i.id = r.interactionId /\ i.org_id = r.ctx.orgId}
    IN  /\ r.pc = "respond"
        /\ run' = [run EXCEPT ![q] =
              IF r.interactionId = 0
              THEN [r EXCEPT !.pc = "done", !.status = 500]
              ELSE [r EXCEPT !.pc = "done", !.status = IF r.inserted THEN 201 ELSE 200,
                             !.rows = found]]
        /\ UNCHANGED << import_jobs, voters, platform_events, audit_logs, interactions,
                        walk_lists, list_members, voter_merge_alerts, jobData, queue, deliveries >>

\* A query between BEGIN and COMMIT is rejected by the store: catch, ROLLBACK,
\* throw.
AbortInteraction(q) ==
    /\ run[q].pc \in {"insert", "survey", "select", "commit"}
    /\ run' = [run EXCEPT ![q] = [@ EXCEPT !.pc = "done", !.conn = Idle,
                                             !.threw = StoreUnavailable]]
    /\ UNCHANGED << import_jobs, voters, platform_events, audit_logs, interactions,
                    walk_lists, list_members, voter_merge_alerts, jobData, queue, deliveries >>

\* Tenant o1 has imported two voters; no request has been sent.
RetryInit ==
    LET ctx == CHOOSE c \in ImportContexts : c.orgId = "o1"
        empty == [jobs |-> <<>>, voters |-> {}, events |-> <<>>, audit_logs |-> EmptyBag,
                  interactions |-> {}, walk_lists |-> {}, list_members |-> {}, alerts |-> {}]
    IN  \E db \in { Reimport(empty, ctx, << RowFull, RowTwin >>, "r0", "r0") } :
            /\ import_jobs = db.jobs
            /\ voters = db.voters
            /\ platform_events = db.events
            /\ audit_logs = db.audit_logs
            /\ interactions = db.interactions
            /\ walk_lists = db.walk_lists
            /\ list_members = db.list_members
            /\ voter_merge_alerts = db.alerts
            /\ jobData = (1 :> JobPayload(1, ctx, << RowFull, RowTwin >>))
            /\ queue = {}
            /\ deliveries = (1 :> 1)
            /\ run = [q \in Retries |-> NotSent]

RetryNext ==
    \/ \E q \in DOMAIN run, ctx \in RetryContexts, body \in RetryBodies :
          PostInteraction(q, ctx, body)
    \/ \E q \in DOMAIN run : StepInsertInteraction(q)
    \/ \E q \in DOMAIN run : StepInsertSurvey(q)
    \/ \E q \in DOMAIN run : StepSelectExisting(q)
    \/ \E q \in DOMAIN run : StepCommitInteraction(q)
    \/ \E q \in DOMAIN run : StepAnswerInteraction(q)
    \/ \E q \in DOMAIN run : AbortInteraction(q)

RetrySpec == RetryInit /\ [][RetryNext]_vars

\* The committed interactions of a request's tenant with the request's uuid.
RecordsOf(q) ==
    {i \in interactions :
        /\ i.org_id = run[q].ctx.orgId
        /\ i.client_interaction_uuid = run[q].body.client_interaction_uuid}

\* Request q has been answered 200 or 201.
Answered(q) == run[q].pc = "done" /\ run[q].status \in {200, 201}

\* What the answered requests were told, against the committed table.
RetriesAnswered ==
    /\ \A q \in DOMAIN run :
          /\ Cardinality(RecordsOf(q)) <= 1
          /\ run[q].pc = "done" => (run[q].threw # Null \/ Answered(q))
          /\ Answered(q) =>
                /\ Cardinality(RecordsOf(q)) = 1
                /\ run[q].rows = RecordsOf(q)
          /\ (Answered(q) /\ run[q].status = 201) =>
                \A i \in RecordsOf(q) :
                    /\ i.id = run[q].interactionId
                    /\ i.voter_id = run[q].body.voter_id
                    /\ i.notes = run[q].body.notes
                    /\ i.result_code = run[q].body.result_code
                    /\ i.survey_responses = run[q].body.survey_responses
    /\ \A q, u \in DOMAIN run :
          (q # u /\ Answered(q) /\ Answered(u) /\ run[q].status = 201 /\ run[u].status = 201)
              => RecordsOf(q) # RecordsOf(u)

\* C24: for a tenant and a client_interaction_uuid, requests carrying the
\* uuid, one after another or at the same time, leave exactly one
\* interaction; the request that inserted it is answered 201 and every
\* other 200 with that record; the first record, its survey responses
\* included, is never changed or removed.
C24_OneInteractionPerUuid ==
    [][/\ \A i \in interactions : i \in interactions'
       /\ RetriesAnswered']_vars

\* Three requests of one tenant with one uuid have been answered: one 201,
\* two 200, the last two with other notes than the record holds.
C24_Witness ==
    /\ \A q \in DOMAIN run : Answered(q) /\ run[q].ctx.orgId = "o1"
    /\ Cardinality({q \in DOMAIN run : run[q].status = 201}) = 1
    /\ \E q \in DOMAIN run :
          /\ run[q].status = 200
          /\ \E i \in run[q].rows : i.notes # run[q].body.notes
    /\ \E i \in interactions : i.survey_responses # Null

---------------------------------------------------------------------------
(***************************************************************************)
(* The header normaliser and the row parser of file imports.  Texts are    *)
(* sequences of characters.                                                *)
(***************************************************************************)

LowerCase == << "a", "b", "c", "d", "e", "f", "g", "h", "i", "j", "k", "l", "m",
               "n", "o", "p", "q", "r", "s", "t", "u", "v", "w", "x", "y", "z" >>

UpperCase == << "A", "B", "C", "D", "E", "F", "G", "H", "I", "J", "K", "L", "M",
               "N", "O", "P", "Q", "R", "S", "T", "U", "V", "W", "X", "Y", "Z" >>

\* s.toUpperCase(), for texts of ASCII characters.
ToUpperCase(s) ==
    [n \in 1..Len(s) |->
        IF \E k \in 1..26 : LowerCase[k] = s[n]
        THEN UpperCase[CHOOSE k \in 1..26 : LowerCase[k] = s[n]]
        ELSE s[n]]

\* The header with no split on the comma.
WholeHeader(raw) == raw

\* raw.split(',', 1)[0]: the text before the first comma.
BeforeComma(raw) ==
    LET commas == {n \in 1..Len(raw) : raw[n] = ","}
    IN  IF commas = {} THEN raw
        ELSE SubSeq(raw, 1, (CHOOSE n \in commas : \A m \in commas : n <= m) - 1)

\* cleanLouisianaHeader: first.replace(/"/g, '').trim().toUpperCase()
cleanLouisianaHeader(header) ==
    ToUpperCase(Trim(SelectSeq(BeforeComma(header), LAMBDA c : c # "\"")))

\* header.toUpperCase().replace(/[^A-Z0-9]/g, '')
Squeezed(header) ==
    SelectSeq(ToUpperCase(header),
              LAMBDA c : IsDigit(c) \/ \E k \in 1..26 : UpperCase[k] = c)

\* h.includes(word)
Includes(h, word) ==
    \E n \in 1..(Len(h) - Len(word) + 1) : SubSeq(h, n, n + Len(word) - 1) = word

\* mapHeaderToField's null.
NoField == ""

\* The tests of mapHeaderToField in the order of the code: the field
\* returned, the list h is looked up in, and the words h is searched for.
HeaderRules ==
    <<
       [field |-> "external_id",
        list |-> {<<"R", "E", "G", "I", "S", "T", "R", "A", "T", "I", "O", "N", "N", "U", "M", "B", "E", "R">>,
                  <<"R", "E", "G", "I", "S", "T", "R", "A", "T", "I", "O", "N", "N", "U", "M">>,
                  <<"R", "E", "G", "N", "U", "M", "B", "E", "R">>,
                  <<"V", "O", "T", "E", "R", "I", "D">>,
                  <<"S", "T", "A", "T", "E", "V", "O", "T", "E", "R", "I", "D">>,
                  <<"S", "T", "A", "T", "E", "I", "D">>, <<"V", "A", "N", "I", "D">>,
                  <<"E", "X", "T", "E", "R", "N", "A", "L", "I", "D">>, <<"I", "D">>,
                  <<"L", "A", "L", "I", "S", "T", "I", "D">>},
        words |-> {}],
       [field |-> "first_name",
        list |-> {<<"F", "I", "R", "S", "T", "N", "A", "M", "E">>,
                  <<"N", "A", "M", "E", "F", "I", "R", "S", "T">>, <<"F", "N", "A", "M", "E">>,
                  <<"F", "I", "R", "S", "T">>},
        words |-> {}],
       [field |-> "last_name",
        list |-> {<<"L", "A", "S", "T", "N", "A", "M", "E">>,
                  <<"N", "A", "M", "E", "L", "A", "S", "T">>, <<"L", "N", "A", "M", "E">>,
                  <<"L", "A", "S", "T">>},
        words |-> {}],
       [field |-> "middle_name",
        list |-> {<<"M", "I", "D", "D", "L", "E", "N", "A", "M", "E">>,
                  <<"N", "A", "M", "E", "M", "I", "D">>, <<"M", "N", "A", "M", "E">>,
                  <<"M", "I", "D">>, <<"M", "I">>},
        words |-> {}],
       [field |-> "suffix",
        list |-> {<<"S", "U", "F", "F", "I", "X">>,
                  <<"N", "A", "M", "E", "S", "U", "F", "F", "I", "X">>,
                  <<"P", "E", "R", "S", "O", "N", "A", "L", "N", "A", "M", "E", "S", "U", "F", "F", "I", "X">>,
                  <<"S", "F", "X">>},
        words |-> {}],
       [field |-> "age",
        list |-> {<<"A", "G", "E">>, <<"B", "I", "R", "T", "H", "Y", "E", "A", "R">>,
                  <<"D", "O", "B">>},
        words |-> {}],
       [field |-> "gender",
        list |-> {<<"G", "E", "N", "D", "E", "R">>, <<"S", "E", "X">>,
                  <<"P", "E", "R", "S", "O", "N", "A", "L", "S", "E", "X">>},
        words |-> {}],
       [field |-> "race",
        list |-> {<<"R", "A", "C", "E">>, <<"E", "T", "H", "N", "I", "C", "I", "T", "Y">>,
                  <<"P", "E", "R", "S", "O", "N", "A", "L", "R", "A", "C", "E">>},
        words |-> {}],
       [field |-> "party",
        list |-> {<<"P", "A", "R", "T", "Y">>, <<"P", "A", "R", "T", "Y", "I", "D">>,
                  <<"P", "O", "L", "I", "T", "I", "C", "A", "L", "P", "A", "R", "T", "Y">>,
                  <<"P", "A", "R", "T", "Y", "A", "F", "F", "I", "L", "I", "A", "T", "I", "O", "N">>,
                  <<"R", "E", "G", "I", "S", "T", "R", "A", "T", "I", "O", "N", "P", "O", "L", "I", "T", "I", "C", "A", "L", "P", "A", "R", "T", "Y", "C", "O", "D", "E">>},
        words |-> {}],
       [field |-> "phone",
        list |-> {},
        words |-> {<<"P", "H", "O", "N", "E">>, <<"M", "O", "B", "I", "L", "E">>,
                   <<"C", "E", "L", "L">>}],
       [field |-> "res_house_number",
        list |-> {<<"R", "E", "S", "I", "D", "E", "N", "C", "E", "H", "O", "U", "S", "E", "N", "U", "M", "B", "E", "R">>},
        words |-> {}],
       [field |-> "res_house_fraction",
        list |-> {<<"R", "E", "S", "I", "D", "E", "N", "C", "E", "H", "O", "U", "S", "E", "F", "R", "A", "C", "T", "I", "O", "N">>},
        words |-> {}],
       [field |-> "res_street_direction",
        list |-> {<<"R", "E", "S", "I", "D", "E", "N", "C", "E", "S", "T", "R", "E", "E", "T", "D", "I", "R", "E", "C", "T", "I", "O", "N">>},
        words |-> {}],
       [field |-> "res_street_name",
        list |-> {<<"R", "E", "S", "I", "D", "E", "N", "C", "E", "S", "T", "R", "E", "E", "T", "N", "A", "M", "E">>},
        words |-> {}],
       [field |-> "address",
        list |-> {<<"A", "D", "D", "R", "E", "S", "S">>,
                  <<"R", "E", "S", "A", "D", "D", "R", "E", "S", "S", "1">>,
                  <<"S", "T", "R", "E", "E", "T", "A", "D", "D", "R", "E", "S", "S">>,
                  <<"A", "D", "D", "R", "1">>,
                  <<"R", "E", "S", "I", "D", "E", "N", "C", "E", "A", "D", "D", "R", "E", "S", "S">>,
                  <<"S", "T", "R", "E", "E", "T">>, <<"A", "D", "D", "R", "E", "S", "S", "1">>,
                  <<"R", "E", "S", "I", "D", "E", "N", "C", "E", "A", "D", "D", "R", "E", "S", "S", "L", "I", "N", "E", "1">>},
        words |-> {}],
       [field |-> "unit",
        list |-> {<<"U", "N", "I", "T">>, <<"A", "P", "T">>,
                  <<"A", "P", "A", "R", "T", "M", "E", "N", "T">>, <<"S", "U", "I", "T", "E">>,
                  <<"A", "D", "D", "R", "E", "S", "S", "2">>,
                  <<"R", "E", "S", "A", "D", "D", "R", "E", "S", "S", "2">>,
                  <<"A", "D", "D", "R", "2">>,
                  <<"R", "E", "S", "A", "D", "D", "R", "E", "S", "S", "L", "I", "N", "E", "2">>,
                  <<"R", "E", "S", "I", "D", "E", "N", "C", "E", "A", "P", "A", "R", "T", "M", "E", "N", "T", "N", "U", "M", "B", "E", "R">>},
        words |-> {}],
       [field |-> "city",
        list |-> {<<"C", "I", "T", "Y">>, <<"R", "E", "S", "C", "I", "T", "Y">>,
                  <<"R", "E", "S", "I", "D", "E", "N", "C", "E", "C", "I", "T", "Y">>,
                  <<"R", "E", "S", "I", "D", "E", "N", "C", "E", "C", "I", "T", "Y", "N", "A", "M", "E">>},
        words |-> {}],
       [field |-> "state",
        list |-> {<<"S", "T", "A", "T", "E">>, <<"R", "E", "S", "S", "T", "A", "T", "E">>,
                  <<"S", "T">>,
                  <<"R", "E", "S", "I", "D", "E", "N", "C", "E", "S", "T", "A", "T", "E">>},
        words |-> {}],
       [field |-> "zip",
        list |-> {<<"Z", "I", "P">>, <<"Z", "I", "P", "C", "O", "D", "E">>,
                  <<"R", "E", "S", "Z", "I", "P">>,
                  <<"P", "O", "S", "T", "A", "L", "C", "O", "D", "E">>, <<"Z", "I", "P", "5">>,
                  <<"R", "E", "S", "I", "D", "E", "N", "C", "E", "Z", "I", "P", "C", "O", "D", "E", "5">>},
        words |-> {}] >>



\* One test: [ ... ].includes(h), or h.includes(word) for one of the words.
RuleMatches(rule, h) == h \in rule.list \/ \E word \in rule.words : Includes(h, word)

\* mapHeaderToField: the field of the first test that h passes, else null.
mapHeaderToField(header) ==
    LET h == Squeezed(header)
        hits == {n \in 1..Len(HeaderRules) : RuleMatches(HeaderRules[n], h)}
    IN  IF hits = {} THEN NoField
        ELSE HeaderRules[CHOOSE n \in hits : \A m \in hits : n <= m].field

\* csv.split(/\r?\n/): the texts between line ends, a carriage return before
\* a line feed being part of the line end.
SplitLines(csv) ==
    LET feeds == {n \in 1..Len(csv) : csv[n] = "\n"}
        feed(k) == IF k = 0 THEN 0
                   ELSE IF k > Cardinality(feeds) THEN Len(csv) + 1
                   ELSE CHOOSE n \in feeds : Cardinality({m \in feeds : m <= n}) = k
        upTo(n) == IF n <= Len(csv) /\ n > 1 /\ csv[n - 1] = "\r" THEN n - 2 ELSE n - 1
    IN  [k \in 1..(Cardinality(feeds) + 1) |->
            IF feed(k - 1) + 1 > upTo(feed(k)) THEN <<>>
            ELSE SubSeq(csv, feed(k - 1) + 1, upTo(feed(k)))]

\* .filter((line) => line.trim().length > 0)
NonBlankLines(csv) == SelectSeq(SplitLines(csv), LAMBDA line : Trim(line) # <<>>)

\* The cell of csv-parser: outer quotes removed when the cell starts and ends
\* with one, and a quote that escapes a quote dropped.
RECURSIVE Unescaped(_)
Unescaped(cell) ==
    IF cell = <<>> THEN <<>>
    ELSE IF Head(cell) = "\"" /\ Len(cell) >= 2 /\ cell[2] = "\""
         THEN << "\"" >> \o Unescaped(SubSeq(cell, 3, Len(cell)))
         ELSE << Head(cell) >> \o Unescaped(Tail(cell))

ParseCell(cell) ==
    IF cell # <<>> /\ Head(cell) = "\"" /\ cell[Len(cell)] = "\""
    THEN Unescaped(SubSeq(cell, 2, Len(cell) - 1))
    ELSE Unescaped(cell)

\* The first comma or quote of the line at or after character i.
NextMark(line, i) ==
    LET marks == {n \in i..Len(line) : line[n] \in {",", "\""}}
    IN  IF marks = {} THEN Len(line) + 1 ELSE CHOOSE n \in marks : \A m \in marks : n <= m

\* The line scanner of csv-parser from character i on: the cells end at the
\* commas outside quotes; a quote opens a quoted stretch, and a quote before
\* a comma closes it.
RECURSIVE ScanLine(_, _, _, _, _)
ScanLine(line, from, isQuoted, offset, cells) ==
    LET i == NextMark(line, from)
    IN  IF i > Len(line)
        THEN LET last == IF offset <= Len(line)
                         THEN Append(cells, ParseCell(SubSeq(line, offset, Len(line))))
                         ELSE cells
             IN  IF line # <<>> /\ line[Len(line)] = "," THEN Append(last, <<>>) ELSE last
        ELSE LET c == line[i]
                 next == IF i < Len(line) THEN line[i + 1] ELSE ""
             IN  IF c = "\"" /\ (~isQuoted \/ next = ",")
                 THEN ScanLine(line, i + 1, ~isQuoted, offset, cells)
                 ELSE IF isQuoted /\ c = "\"" /\ next = "\""
                 THEN ScanLine(line, i + 2, isQuoted, offset, cells)
                 ELSE IF c = "," /\ ~isQuoted
                 THEN ScanLine(line, i + 1, isQuoted, i + 1,
                               Append(cells, ParseCell(SubSeq(line, offset, i - 1))))
                 ELSE ScanLine(line, i + 1, isQuoted, offset, cells)

\* parseCSVLine: the cells of one line, in column order.
parseCSVLine(line) == ScanLine(line, 1, FALSE, 1, <<>>)

\* row[field] = value, kept only when the row has no such key yet.
KeepField(row, field, value) ==
    [f \in DOMAIN row \cup {field} |-> IF f \in DOMAIN row THEN row[f] ELSE value]

\* row[field] = value
SetField(row, field, value) ==
    [f \in DOMAIN row \cup {field} |-> IF f = field THEN value ELSE row[f]]

\* fieldMap.forEach((field, idx) => { if (!field) return; row[field] = values[idx]; })
\* from column idx on; values[idx] past the end of the line is undefined.
RECURSIVE AssignColumns(_, _, _, _)
AssignColumns(row, fieldMap, values, idx) ==
    IF idx > Len(fieldMap) THEN row
    ELSE IF fieldMap[idx] = NoField THEN AssignColumns(row, fieldMap, values, idx + 1)
    ELSE AssignColumns(SetField(row, fieldMap[idx],
                                IF idx <= Len(values) THEN values[idx] ELSE Undef),
                       fieldMap, values, idx + 1)

\* const row: ParsedVoterRow = {}
EmptyRow == [f \in {} |-> <<>>]

\* The header lines of the files read.
HeaderLines ==
    { <<"\"", "R", "E", "S", "I", "D", "E", "N", "T", "I", "A", "L", " ", "A", "D", "D", "R", "E", "S", "S", ",", " ", "L", "I", "N", "E", " ", "1", "\"", ",", "R", "E", "S", "I", "D", "E", "N", "T", "I", "A", "L", " ", "A", "D", "D", "R", "E", "S", "S", ",", "P", "H", "O", "N", "E", " ", "N", "U", "M", "B", "E", "R", ",", "R", "A", "N", "D", "O", "M", " ", "U", "N", "K", "N", "O", "W", "N", " ", "C", "O", "L", "U", "M", "N">>,
      <<"V", "o", "t", "e", "r", " ", "I", "D", ",", "F", "i", "r", "s", "t", " ", "N", "a", "m", "e", ",", "l", "a", "s", "t", "_", "n", "a", "m", "e", ",", "\"", "R", "e", "s", "i", "d", "e", "n", "c", "e", " ", "A", "d", "d", "r", "e", "s", "s", ",", " ", "L", "i", "n", "e", " ", "1", "\"", ",", "Z", "i", "p", " ", "C", "o", "d", "e">>,
      <<"I", "D", ",", "H", "O", "M", "E", " ", "P", "H", "O", "N", "E", ",", "C", "E", "L", "L", " ", "P", "H", "O", "N", "E", ",", "C", "A", "N", "C", "E", "L", "L", "E", "D", " ", "D", "A", "T", "E">>,
      <<"f", "i", "r", "s", "t", ",", "M", "I", ",", "A", "G", "E", " ", "G", "R", "O", "U", "P", ",", "S", "T", ".", ",", "M", "O", "B", "I", "L", "E", " ", "H", "O", "M", "E", " ", "L", "O", "T">>,
      <<" ", "\"", "C", "i", "t", "y", "\"", " ", ",", "F", "n", "a", "m", "e", ",", " ", "S", "e", "x", ",", "F", "I", "R", "S", "T">> }

\* What follows the header line in the files read.
FileBodies ==
    { <<"\n", "1", ",", "A", "n", "n", ",", "L", "e", "e", ",", "\"", "1", "2", " ", "O", "a", "k", " ", "S", "t", ",", " ", "A", "p", "t", " ", "4", "\"", ",", "7", "0", "8", "0", "1", "\n">>,
      <<"\r", "\n", "\r", "\n", "2", ",", "B", "o", "b", "\r", "\n", " ", " ", " ", "\r", "\n", "3", ",", "\"", "C", "y", " ", "\"", "\"", "C", "\"", "\"", "\"", ",", "D", "o", "w", ",", ",", "7", "\n">>,
      <<"\n", "\n">>,
      <<"\n", "4", ",", "5", ",", "6", ",", "7", ",", "8", ",", "9", "\n", "\t", "\n", ",", ",", "\n">>,
      <<>>,
      <<"\n", "9", ",", "x", ",", "y", ",", "z", "\n", "9", ",", "y", "\n", "8", ",", "z">> }

\* The documents handed to parseCsvToVoters.
Documents ==
    { head \o body : head \in HeaderLines, body \in FileBodies } \cup { <<>>, << "\n", " ", "\n" >> }

Parsers == {"p1"}

\* parseCsvToVoters is called with a document.
ParseInit ==
    /\ import_jobs = <<>>
    /\ voters = {}
    /\ platform_events = <<>>
    /\ audit_logs = EmptyBag
    /\ interactions = {}
    /\ walk_lists = {}
    /\ list_members = {}
    /\ voter_merge_alerts = {}
    /\ jobData = <<>>
    /\ queue = {}
    /\ deliveries = <<>>
    /\ \E csv \in Documents :
          run = [p \in Parsers |->
                    [pc |-> "called", csv |-> csv, lines |-> <<>>, rawHeaders |-> <<>>,
                     cleanedHeaders |-> <<>>, fieldMap |-> <<>>, i |-> 1, rows |-> <<>>]]

\* const lines = ...; if (lines.length === 0) return [];
ReadLines(p) ==
    /\ run[p].pc = "called"
    /\ \E lines \in { NonBlankLines(run[p].csv) } :
          run' = [run EXCEPT ![p].lines = lines,
                             ![p].pc = IF lines = <<>> THEN "returned" ELSE "headers"]
    /\ UNCHANGED << import_jobs, voters, platform_events, audit_logs, interactions,
                    walk_lists, list_members, voter_merge_alerts, jobData, queue,
                    deliveries >>

\* rawHeaders, cleanedHeaders and fieldMap, computed from the first line.
MapHeaders(p) ==
    /\ run[p].pc = "headers"
    /\ \E rawHeaders \in { parseCSVLine(run[p].lines[1]) } :
       \E cleanedHeaders \in { [k \in 1..Len(rawHeaders) |-> cleanLouisianaHeader(rawHeaders[k])] } :
          run' = [run EXCEPT ![p].rawHeaders = rawHeaders,
                             ![p].cleanedHeaders = cleanedHeaders,
                             ![p].fieldMap = [k \in 1..Len(cleanedHeaders) |->
                                                 mapHeaderToField(cleanedHeaders[k])],
                             ![p].i = 2,
                             ![p].pc = "rows"]
    /\ UNCHANGED << import_jobs, voters, platform_events, audit_logs, interactions,
                    walk_lists, list_members, voter_merge_alerts, jobData, queue,
                    deliveries >>

\* One turn of for (let i = 1; i < lines.length; i++).
ParseRow(p) ==
    /\ run[p].pc = "rows"
    /\ run[p].i <= Len(run[p].lines)
    /\ \E values \in { parseCSVLine(run[p].lines[run[p].i]) } :
          run' = [run EXCEPT ![p].rows = Append(@, AssignColumns(EmptyRow, run[p].fieldMap,
                                                                 values, 1)),
                             ![p].i = @ + 1]
    /\ UNCHANGED << import_jobs, voters, platform_events, audit_logs, interactions,
                    walk_lists, list_members, voter_merge_alerts, jobData, queue,
                    deliveries >>

\* return rows;
ReturnRows(p) ==
    /\ run[p].pc = "rows"
    /\ run[p].i > Len(run[p].lines)
    /\ run' = [run EXCEPT ![p].pc = "returned"]
    /\ UNCHANGED << import_jobs, voters, platform_events, audit_logs, interactions,
                    walk_lists, list_members, voter_merge_alerts, jobData, queue,
                    deliveries >>

ParseNext ==
    \/ \E p \in DOMAIN run : ReadLines(p)
    \/ \E p \in DOMAIN run : MapHeaders(p)
    \/ \E p \in DOMAIN run : ParseRow(p)
    \/ \E p \in DOMAIN run : ReturnRows(p)

ParseSpec == ParseInit /\ [][ParseNext]_vars

\* The header of a column, normalised and looked up.
FieldOf(raw) == mapHeaderToField(cleanLouisianaHeader(raw))

\* The columns of the parser whose headers have been mapped.
MappedColumns(p) == IF run[p].pc \in {"rows", "returned"} THEN DOMAIN run[p].rawHeaders ELSE {}

\* C25: a header "X, anything" is cleaned and mapped as its part X before the
\* first comma is; "RESIDENTIAL ADDRESS, LINE 1" and "RESIDENTIAL ADDRESS"
\* clean to the same text, "PHONE NUMBER" maps to phone and "RANDOM UNKNOWN
\* COLUMN" maps to no field.
C25_HeaderSplitsOnFirstComma ==
    \A p \in DOMAIN run : \A k \in MappedColumns(p) :
        LET raw == run[p].rawHeaders[k]
            X == IF \E n \in 1..Len(raw) : raw[n] = ","
                 THEN SubSeq(raw, 1, (CHOOSE n \in 1..Len(raw) :
                                         raw[n] = "," /\ \A m \in 1..(n - 1) : raw[m] # ",") - 1)
                 ELSE raw
        IN  /\ run[p].cleanedHeaders[k] = cleanLouisianaHeader(X)
            /\ run[p].fieldMap[k] = FieldOf(X)
            /\ \A j \in MappedColumns(p) :
                  /\ raw = <<"R", "E", "S", "I", "D", "E", "N", "T", "I", "A", "L", " ", "A", "D", "D", "R", "E", "S", "S", ",", " ", "L", "I", "N", "E", " ", "1">>
                  /\ run[p].rawHeaders[j] = <<"R", "E", "S", "I", "D", "E", "N", "T", "I", "A", "L", " ", "A", "D", "D", "R", "E", "S", "S">>
                  => /\ run[p].cleanedHeaders[k] = run[p].cleanedHeaders[j]
                     /\ run[p].fieldMap[k] = run[p].fieldMap[j]
            /\ raw = <<"P", "H", "O", "N", "E", " ", "N", "U", "M", "B", "E", "R">> => run[p].fieldMap[k] = "phone"
            /\ raw = <<"R", "A", "N", "D", "O", "M", " ", "U", "N", "K", "N", "O", "W", "N", " ", "C", "O", "L", "U", "M", "N">> => run[p].fieldMap[k] = NoField

\* Both example headers with a comma, the phone header and the unknown header
\* have been mapped.
C25_Witness ==
    \E p \in DOMAIN run :
        /\ run[p].pc = "returned"
        /\ \A raw \in { <<"R", "E", "S", "I", "D", "E", "N", "T", "I", "A", "L", " ", "A", "D", "D", "R", "E", "S", "S", ",", " ", "L", "I", "N", "E", " ", "1">>,
                       <<"R", "E", "S", "I", "D", "E", "N", "T", "I", "A", "L", " ", "A", "D", "D", "R", "E", "S", "S">>,
                       <<"P", "H", "O", "N", "E", " ", "N", "U", "M", "B", "E", "R">>,
                       <<"R", "A", "N", "D", "O", "M", " ", "U", "N", "K", "N", "O", "W", "N", " ", "C", "O", "L", "U", "M", "N">> } :
              \E k \in MappedColumns(p) : run[p].rawHeaders[k] = raw

\* The closed list of a test: the members of its look-up list and its words.
SynonymList(rule) == rule.list \cup rule.words

\* C26: a header is mapped to a field only when the header, upper-cased and
\* stripped of what is not a letter or a digit, is equal to a member of the
\* field's list, phone included; every other header is mapped to no field.
C26_ExactSynonymMatch ==
    \A p \in DOMAIN run : \A k \in MappedColumns(p) :
        LET h == Squeezed(run[p].cleanedHeaders[k])
            listed == {n \in 1..Len(HeaderRules) : h \in SynonymList(HeaderRules[n])}
        IN  IF listed = {} THEN run[p].fieldMap[k] = NoField
            ELSE \E n \in listed : run[p].fieldMap[k] = HeaderRules[n].field

\* The number of columns of the line whose header was mapped to the field.
ColumnsOf(p, field) == {k \in DOMAIN run[p].fieldMap : run[p].fieldMap[k] = field}

\* What parseCsvToVoters has returned for the document, but for the values.
RowsPerLine(p) ==
    LET lines == NonBlankLines(run[p].csv)
    IN  /\ run[p].lines = lines
        /\ \A n \in 1..Len(SplitLines(run[p].csv)) :
              Trim(SplitLines(run[p].csv)[n]) = <<>> =>
                  \A m \in 1..Len(lines) : lines[m] # SplitLines(run[p].csv)[n]
        /\ Len(run[p].rows) = IF lines = <<>> THEN 0 ELSE Len(lines) - 1
        /\ lines # <<>> =>
              run[p].fieldMap = [k \in 1..Len(parseCSVLine(lines[1])) |->
                                    FieldOf(parseCSVLine(lines[1])[k])]
        /\ \A n \in 1..Len(run[p].rows) :
              DOMAIN run[p].rows[n] = {run[p].fieldMap[k] : k \in DOMAIN run[p].fieldMap} \ {NoField}

---------------------------------------------------------------------------
(***************************************************************************)
(* The format adapter: xlsxBufferToCsv and its conversion subprocess.      *)
(***************************************************************************)

\* The calls of xlsxBufferToCsv in progress, one per worker process.
Converters == {"x1", "x2"}

\* The buffers converted: a workbook, bytes that are no workbook, and a
\* workbook whose conversion takes longer than the timeout.
Workbooks == {"workbook", "garbage", "endless"}

NotCalled == [pc |-> "idle", buffer |-> "", dir |-> FALSE, files |-> {}, err |-> ""]

\* const dir = fs.mkdtempSync(...); fs.writeFileSync(inPath, buffer); execFile(...)
CallXlsxBufferToCsv(c, buffer) ==
    /\ run[c].pc = "idle"
    /\ run' = [run EXCEPT ![c] = [pc |-> "exec", buffer |-> buffer, dir |-> TRUE,
                                  files |-> {"input.xlsx"}, err |-> ""]]
    /\ UNCHANGED << import_jobs, voters, platform_events, audit_logs, interactions,
                    walk_lists, list_members, voter_merge_alerts, jobData, queue,
                    deliveries >>

\* The subprocess has loaded the workbook and opens out_path for writing.
SubprocessOpensOutput(c) ==
    /\ run[c].pc = "exec"
    /\ run[c].buffer # "garbage"
    /\ run' = [run EXCEPT ![c].pc = "writing", ![c].files = @ \cup {"output.csv"}]
    /\ UNCHANGED << import_jobs, voters, platform_events, audit_logs, interactions,
                    walk_lists, list_members, voter_merge_alerts, jobData, queue,
                    deliveries >>

\* The subprocess exits with status 0: the callback gets no err and resolves.
SubprocessSucceeds(c) ==
    /\ run[c].pc = "writing"
    /\ run[c].buffer = "workbook"
    /\ run' = [run EXCEPT ![c].pc = "resolved"]
    /\ UNCHANGED << import_jobs, voters, platform_events, audit_logs, interactions,
                    walk_lists, list_members, voter_merge_alerts, jobData, queue,
                    deliveries >>

\* The subprocess exits with an error (python3 or openpyxl missing, no
\* workbook in the buffer, a failure while writing): the callback rejects.
SubprocessFails(c) ==
    /\ run[c].pc \in {"exec", "writing"}
    /\ run[c].buffer # "endless"
    /\ run' = [run EXCEPT ![c].pc = "rejected", ![c].err = "exited with an error"]
    /\ UNCHANGED << import_jobs, voters, platform_events, audit_logs, interactions,
                    walk_lists, list_members, voter_merge_alerts, jobData, queue,
                    deliveries >>

\* { timeout: 60_000 }: the subprocess is killed, and the callback rejects.
SubprocessTimesOut(c) ==
    /\ run[c].pc \in {"exec", "writing"}
    /\ run[c].buffer = "endless"
    /\ run' = [run EXCEPT ![c].pc = "rejected", ![c].err = "killed by the timeout"]
    /\ UNCHANGED << import_jobs, voters, platform_events, audit_logs, interactions,
                    walk_lists, list_members, voter_merge_alerts, jobData, queue,
                    deliveries >>

\* After the await: readFileSync(outPath), rmSync(dir, { recursive, force }),
\* return csvBuf.
ReadCleanReturn(c) ==
    /\ run[c].pc = "resolved"
    /\ run' = [run EXCEPT ![c].pc = "returned", ![c].dir = FALSE, ![c].files = {}]
    /\ UNCHANGED << import_jobs, voters, platform_events, audit_logs, interactions,
                    walk_lists, list_members, voter_merge_alerts, jobData, queue,
                    deliveries >>

\* The await of the rejected promise throws, and the call ends there.
ThrowFromAwait(c) ==
    /\ run[c].pc = "rejected"
    /\ run' = [run EXCEPT ![c].pc = "thrown"]
    /\ UNCHANGED << import_jobs, voters, platform_events, audit_logs, interactions,
                    walk_lists, list_members, voter_merge_alerts, jobData, queue,
                    deliveries >>

XlsxInit ==
    /\ import_jobs = <<>>
    /\ voters = {}
    /\ platform_events = <<>>
    /\ audit_logs = EmptyBag
    /\ interactions = {}
    /\ walk_lists = {}
    /\ list_members = {}
    /\ voter_merge_alerts = {}
    /\ jobData = <<>>
    /\ queue = {}
    /\ deliveries = <<>>
    /\ run = [c \in Converters |-> NotCalled]

\* One step of a call that has been made.
XlsxStep(c) ==
    \/ SubprocessOpensOutput(c)
    \/ SubprocessSucceeds(c)
    \/ SubprocessFails(c)
    \/ SubprocessTimesOut(c)
    \/ ReadCleanReturn(c)
    \/ ThrowFromAwait(c)

XlsxNext ==
    \/ \E c \in DOMAIN run, buffer \in Workbooks : CallXlsxBufferToCsv(c, buffer)
    \/ \E c \in DOMAIN run : SubprocessOpensOutput(c)
    \/ \E c \in DOMAIN run : SubprocessSucceeds(c)
    \/ \E c \in DOMAIN run : SubprocessFails(c)
    \/ \E c \in DOMAIN run : SubprocessTimesOut(c)
    \/ \E c \in DOMAIN run : ReadCleanReturn(c)
    \/ \E c \in DOMAIN run : ThrowFromAwait(c)

\* A call that has been made goes on: the subprocess ends, by itself or by the
\* timeout, and the event loop runs the callback and what follows the await.
XlsxSpec == XlsxInit /\ [][XlsxNext]_vars /\ \A c \in Converters : WF_vars(XlsxStep(c))

\* C28: the temporary directory a call of xlsxBufferToCsv has made is
\* eventually removed, whether the subprocess succeeded, exited with an error
\* or was killed by the timeout.
C28_TempDirEventuallyRemoved ==
    \A c \in Converters : run[c].dir ~> ~run[c].dir

---------------------------------------------------------------------------
(***************************************************************************)
(* File uploads: POST /api/v1/imports/voters.                              *)
(***************************************************************************)

\* The ids crypto.randomUUID() gives the jobs of uploads, in the order given.
UploadIds == {1, 2, 3}

\* The files uploaded: the sha256 of the content, the extension of the
\* original name, the size, and the rows the worker parses the content to.
UploadedFiles ==
    { [hash |-> "h1", ext |-> ".csv", size |-> 1, rows |-> << RowFull >>],
      [hash |-> "h2", ext |-> "", size |-> 2, rows |-> << RowOther >>] }

UploadContexts == { c \in Contexts : c.userId \in {"u2", "u3"} }

\* prior.rows[0] || null, and the ?. || null of its three columns.
NoPriorJob == [id |-> 0, created_at |-> 0, status |-> "null"]

\* The latest job of the hash in any tenant.
SelectPriorJobOfAnyOrg(js, orgId, fileHash) ==
    LET found == {j \in DOMAIN js :
                    /\ js[j].type = "import_voters"
                    /\ "file_hash" \in DOMAIN js[j].metadata
                    /\ js[j].metadata.file_hash = fileHash}
    IN  IF found = {} THEN NoPriorJob
        ELSE LET j == CHOOSE j \in found :
                         \A k \in found : js[k].created_at <= js[j].created_at
             IN  [id |-> j, created_at |-> js[j].created_at, status |-> js[j].status]

\* SELECT id, created_at, status FROM import_jobs WHERE org_id = $1 AND type =
\* 'import_voters' AND (metadata->>'file_hash') = $2 ORDER BY created_at DESC
\* LIMIT 1
SelectPriorJob(js, orgId, fileHash) ==
    LET found == {j \in DOMAIN js :
                    /\ js[j].org_id = orgId
                    /\ js[j].type = "import_voters"
                    /\ "file_hash" \in DOMAIN js[j].metadata
                    /\ js[j].metadata.file_hash = fileHash}
    IN  IF found = {} THEN NoPriorJob
        ELSE LET j == CHOOSE j \in found :
                         \A k \in found : js[k].created_at <= js[j].created_at
             IN  [id |-> j, created_at |-> js[j].created_at, status |-> js[j].status]

\* `imports/${req.context.orgId}/${jobId}${ext}`
FileKey(orgId, jobId, ext) ==
    << "imports/", orgId, "/", ToString(jobId), IF ext # "" THEN ext ELSE ".csv" >>

\* NOW() of an INSERT INTO import_jobs: later for a later insert.
Now(js) == Cardinality(DOMAIN js) + 1

\* The row the upload inserts.
UploadJobRow(js, jobId, ctx, file) ==
    LET key == FileKey(ctx.orgId, jobId, file.ext)
        priorJob == SelectPriorJob(js, ctx.orgId, file.hash)
    IN  [org_id |-> ctx.orgId, user_id |-> ctx.userId, type |-> "import_voters",
         status |-> "pending", created_at |-> Now(js), file_key |-> key,
         result |-> NoJson, error |-> Null,
         metadata |-> [key |-> key, size |-> file.size, file_hash |-> file.hash,
                       duplicate_of_job_id |-> priorJob.id,
                       duplicate_of_created_at |-> priorJob.created_at,
                       duplicate_of_status |-> priorJob.status]]

\* POST /api/v1/imports/voters: store the object, look up the prior job of the
\* hash, insert the pending job and enqueue { jobId, orgId, userId, fileKey }.
\* The rows the worker reads from the object of fileKey stand for it in the
\* payload.
UploadVoterFile(ctx, file) ==
    /\ UploadIds \ DOMAIN import_jobs # {}
    /\ LET jobId == CHOOSE j \in UploadIds \ DOMAIN import_jobs :
                        \A k \in UploadIds \ DOMAIN import_jobs : j <= k
       IN  /\ import_jobs' = import_jobs @@ (jobId :> UploadJobRow(import_jobs, jobId, ctx, file))
           /\ jobData' = jobData @@ (jobId :> JobPayload(jobId, ctx, file.rows))
           /\ queue' = queue \cup {jobId}
           /\ deliveries' = deliveries @@ (jobId :> 0)
    /\ UNCHANGED << voters, platform_events, audit_logs, interactions, walk_lists,
                    list_members, voter_merge_alerts, run >>

UploadNext ==
    \/ \E ctx \in UploadContexts, file \in UploadedFiles : UploadVoterFile(ctx, file)
    \/ \E w \in Workers, j \in queue : Dispatch(w, j)
    \/ \E w \in Workers : StepBegin(w)
    \/ \E w \in Workers : StepRow(w, "r0", "r0")
    \/ \E w \in Workers : StepFinalize(w)
    \/ \E w \in Workers : Throw(w, StoreUnavailable)
    \/ \E w \in Workers : StepCatch(w)

UploadSpec == ImportInit /\ [][UploadNext]_vars

\* The jobs of the tenant's uploads of the hash.
UploadsOf(js, orgId, hash) ==
    {j \in DOMAIN js : js[j].org_id = orgId /\ js[j].metadata.file_hash = hash}

---------------------------------------------------------------------------
(***************************************************************************)
(* Jobs from dispatch to their end: the worker of startWorker and the      *)
(* queue, which is created and fed with no job options (queue.ts:15-17,    *)
(* app.ts:1039), so that a job whose processor threw is not run again; a   *)
(* job whose worker died is handed out again by the queue.                 *)
(***************************************************************************)

\* Request bodies: a row the store accepts, and a row it rejects.
EndingPayloads == { << RowOther >>, << RowBadAge >> }

\* The context that submits them.
EndingContexts == { c \in ImportContexts : c.orgId = "o1" }

\* The last run of the job ended with the processor throwing.
RunThrew(j) == \E w \in DOMAIN run : run[w].pc = "threw" /\ run[w].payload.jobId = j

\* The run of the job ended with the worker process dying.
RunCrashed(j) == \E w \in DOMAIN run : run[w].pc = "crashed" /\ run[w].payload.jobId = j

\* A queue that hands out again a job whose processor threw.
RetryFailed(j) == RunThrew(j) /\ Redeliver(j)

\* The queue finds the job of a dead worker stalled and hands it out again.
RedeliverStalled(j) == RunCrashed(j) /\ Redeliver(j)

EndingNext ==
    \/ \E ctx \in EndingContexts, body \in EndingPayloads : CreateImportJob(ctx, body)
    \/ \E j \in DOMAIN jobData : RedeliverStalled(j)
    \/ \E w \in Workers, j \in queue : Dispatch(w, j)
    \/ \E w \in Workers : StepBegin(w)
    \/ \E w \in Workers : StepRow(w, "r0", "r0")
    \/ \E w \in Workers : StepFinalize(w)
    \/ \E w \in Workers : Throw(w, StoreUnavailable)
    \/ \E w \in Workers : StepCatch(w)
    \/ \E w \in Workers : Crash(w)

\* A run that has begun goes on while its process lives: the store answers
\* each awaited query, and the event loop runs what follows the await.
EndingSpec ==
    /\ ImportInit
    /\ [][EndingNext]_vars
    /\ \A w \in Workers :
          /\ WF_vars(StepBegin(w))
          /\ WF_vars(StepRow(w, "r0", "r0"))
          /\ WF_vars(StepFinalize(w))
          /\ WF_vars(StepCatch(w))

\* processImportJob is running for the job.
Running(j) == \E w \in DOMAIN run : run[w].pc \in {"begin", "rows", "catch"}
                                     /\ run[w].payload.jobId = j

\* The committed status of the job is completed or failed.
Ended(j) == j \in DOMAIN import_jobs /\ import_jobs[j].status \in Terminal

\* No job whose committed status is failed is handed to processImportJob.
FailedNotRerun ==
    [][\A w \in DOMAIN run :
          run[w].pc # "begin" /\ run'[w].pc = "begin"
              => import_jobs[run'[w].payload.jobId].status # "failed"]_vars

---------------------------------------------------------------------------
(***************************************************************************)
(* Lifecycle events and progress of a run.                                 *)
(***************************************************************************)

\* Event k is of the type and carries the job id.
EventOf(k, type, j) ==
    IF platform_events[k].event_type = type
    THEN platform_events[k].metadata.job_id = j
    ELSE FALSE

\* C31: for every job that a run has brought to completed or failed, an
\* import.started event of the job is in platform_events before each of its
\* import.completed and import.failed events.
C31_StartedBeforeTerminalEvent ==
    \A j \in DOMAIN import_jobs : \A k \in DOMAIN platform_events :
        (EventOf(k, "import.completed", j) \/ EventOf(k, "import.failed", j))
            => \E m \in 1..(k - 1) : EventOf(m, "import.started", j)

\* The progress object is a 100% report of the phase.
FullProgress(progress, phase) ==
    /\ progress.phase = phase
    /\ "total_rows" \in DOMAIN progress
    /\ progress.processed_rows = progress.total_rows

\* The progress object never reports more rows than the file has.
WithinTotal(progress) ==
    "total_rows" \in DOMAIN progress => progress.processed_rows <= progress.total_rows

\* C32: a completed job's progress metadata is the 'finalizing' report with
\* processed_rows equal to total_rows, and every progress object a run has
\* written, committed or not, has processed_rows <= total_rows.
C32_FinalProgressIsFull ==
    /\ \A j \in DOMAIN import_jobs :
          import_jobs[j].status = "completed" =>
              /\ "progress" \in DOMAIN import_jobs[j].metadata
              /\ FullProgress(import_jobs[j].metadata.progress, "finalizing")
    /\ \A w \in DOMAIN run :
          (run[w].pc = "rows" /\ "progress" \in DOMAIN JobAsWritten(w).metadata)
              => WithinTotal(JobAsWritten(w).metadata.progress)

---------------------------------------------------------------------------
(***************************************************************************)
(* One-time codes and magic links: src/utils/otp.ts over a Redis store,    *)
(* POST /api/v1/auth/otp/request and POST /api/v1/auth/otp/verify.  Every  *)
(* request opens its own Redis connection, so WATCH is per request; each   *)
(* await of a call is one step.  The behaviours are those within the time  *)
(* to live of the keys (EX 600).                                           *)
(***************************************************************************)

\* Wrong codes submitted and challenges created in one behaviour: two of
\* each where challenges meet, and one challenge with enough wrong codes to
\* lock it and try again where the lockout is studied.
MaxWrongCodes == 2
MaxChallenges == 2
LockoutWrongCodes == 6
LockoutChallenges == 1

\* crypto.randomUUID(): the ids in the order they are drawn.
Uuids == [i \in 1..MaxChallenges |-> ToString(i)]

\* The users table: one account; "b" has none.
Emails == { "a", "b" }
UserEmails == { "a" }

\* randomDigits(6) and crypto.randomBytes(24).toString('base64url').
Codes == { "111111" }
SubmittedCodes == { "111111", "222222", "" }
TokenSecrets == { "A" }

\* The callers: two verify requests at a time and one request for a code.
Verifiers == { "v1", "v2" }
Requesters == { "q1" }

Nil == ""
NoChallenge ==
    [exists |-> FALSE, id |-> Nil, email |-> Nil, code |-> Nil, token |-> Nil, attempts |-> 0]

keyEmail(email) == << "otp:email", email >>
keyChallenge(id) == << "otp:challenge", id >>

\* `${challenge.id}.${challenge.token}`
formatMagicToken(challenge) == << challenge.id, ".", challenge.token >>

\* provided.split('.')
RECURSIVE SplitOnDots(_)
SplitOnDots(text) ==
    IF \A i \in DOMAIN text : text[i] # "."
    THEN << text >>
    ELSE LET dot == CHOOSE i \in DOMAIN text :
                        text[i] = "." /\ \A k \in 1..(i - 1) : text[k] # "."
         IN  << SubSeq(text, 1, dot - 1) >> \o SplitOnDots(SubSeq(text, dot + 1, Len(text)))

\* A part of the token as the string it is ('' for an empty part).
PartText(part) == IF Len(part) = 1 THEN part[1] ELSE IF part = <<>> THEN Nil ELSE "?"

\* GET of the two kinds of key; a challenge id nobody drew has no key.
GetEmailKey(redis, email) == IF email \in DOMAIN redis.email THEN redis.email[email] ELSE Nil
GetChallengeKey(redis, id) ==
    IF id \in DOMAIN redis.challenge THEN redis.challenge[id] ELSE NoChallenge

KeyExists(redis, key) ==
    IF key[1] = "otp:email" THEN GetEmailKey(redis, key[2]) # Nil
    ELSE GetChallengeKey(redis, key[2]).exists

\* The connection of a request: position, arguments, the locals id and ch,
\* the keys it WATCHes and whether one of them was touched since; after is
\* the set of challenges that had got five wrong codes when the call began.
NoCall ==
    [pc |-> "idle", email |-> Nil, code |-> Nil, token |-> <<>>, id |-> Nil, ch |-> NoChallenge,
     watching |-> {}, dirty |-> FALSE, after |-> {}]

\* What a handler answered last: the result of the call, the HTTP status
\* (0: no answer), and whether the call had read a challenge whose code or
\* secret is the one presented.
NoAnswer == [result |-> Nil, status |-> 0, matched |-> FALSE]

\* Connections that no write ever marks.
Unmarked(conn, keys) == conn

\* A write of the keys marks every connection that watches one of them.
Touch(conn, keys) ==
    [c \in DOMAIN conn |->
        IF conn[c].watching \cap keys # {} THEN [conn[c] EXCEPT !.dirty = TRUE] ELSE conn[c]]

\* SET key value EX ttl
SetChallengeKey(redis, ch) ==
    [redis EXCEPT !.challenge = [id \in DOMAIN @ |-> IF id = ch.id THEN ch ELSE @[id]]]
SetEmailKey(redis, email, id) ==
    [redis EXCEPT !.email = [e \in DOMAIN @ |-> IF e = email THEN id ELSE @[e]]]

\* DEL key
DelChallengeKey(redis, id) ==
    [redis EXCEPT !.challenge = [i \in DOMAIN @ |-> IF i = id THEN NoChallenge ELSE @[i]]]
DelEmailKey(redis, email) == SetEmailKey(redis, email, Nil)

\* The keys a DEL of both removes: a DEL of a missing key touches nothing.
Deleted(redis, id, email) ==
    { k \in { keyChallenge(id), keyEmail(email) } : KeyExists(redis, k) }

\* A lock that needs one attempt more.
LocksLate(attempts) == attempts > 5

\* if (attempts >= 5) return too_many_attempts
MaxAttempts == 5
TooManyAttempts(attempts) == attempts >= MaxAttempts

\* The handler of POST /auth/otp/verify answers 200 with a JWT when the call
\* returned ok and the resolved email has a user, and 401 otherwise.
VerifyStatus(ok, resolvedEmail) ==
    IF ok /\ resolvedEmail # Nil /\ resolvedEmail \in UserEmails THEN 200 ELSE 401

\* The answer of POST /auth/otp/verify to a call that returned; UNWATCH or
\* EXEC has dropped the watches and the connection is closed.
Answer(call, result, ok, resolvedEmail) ==
    [result |-> result, status |-> VerifyStatus(ok, resolvedEmail),
     matched |-> call.ch.exists /\ (call.token = <<>> => call.code = call.ch.code)]

\* The wrong codes submitted so far, those of calls under way included.
WrongCodes ==
    LET ids == DOMAIN run.wrong
        under == { c \in Verifiers : run.conn[c].pc # "idle" /\ run.conn[c].token = <<>> }
        RECURSIVE Sum(_)
        Sum(S) == IF S = {} THEN 0
                  ELSE LET i == CHOOSE i \in S : TRUE IN run.wrong[i] + Sum(S \ { i })
    IN  Sum(ids) + Cardinality(under)

OtpUnchanged ==
    UNCHANGED << import_jobs, voters, platform_events, audit_logs, interactions, walk_lists,
                 list_members, voter_merge_alerts, jobData, queue, deliveries >>

\* POST /auth/otp/verify with { email, code }: consumeOtpChallengeByCode up
\* to await redis.watch(emailKey).
VerifyByCode(c, email, code) ==
    /\ run.conn[c].pc = "idle"
    /\ WrongCodes < run.bound.wrong
    /\ run' = IF code = Nil
              THEN [run EXCEPT !.last = Answer([NoCall EXCEPT !.email = email], "missing_code", FALSE, email)]
              ELSE [run EXCEPT !.conn[c] =
                        [NoCall EXCEPT !.pc = "get_email", !.email = email, !.code = code,
                                       !.watching = { keyEmail(email) },
                                       !.after = { id \in DOMAIN run.wrong : run.wrong[id] >= MaxAttempts }]]
    /\ OtpUnchanged

\* const id = await redis.get(emailKey); if (!id) unwatch, no_challenge
GetEmail(c) ==
    /\ run.conn[c].pc = "get_email"
    /\ LET id == GetEmailKey(run.redis, run.conn[c].email)
       IN  run' = IF id = Nil
                  THEN [run EXCEPT !.conn[c] = NoCall,
                                   !.last = Answer(run.conn[c], "no_challenge", FALSE, run.conn[c].email)]
                  ELSE [run EXCEPT !.conn[c] = [@ EXCEPT !.pc = "watch_challenge", !.id = id]]
    /\ OtpUnchanged

\* await redis.watch(chKey)
WatchChallenge(c) ==
    /\ run.conn[c].pc = "watch_challenge"
    /\ run' = [run EXCEPT !.conn[c].pc = "get_challenge",
                          !.conn[c].watching = @ \cup { keyChallenge(run.conn[c].id) }]
    /\ OtpUnchanged

\* const raw = await redis.get(chKey) and the checks up to the next await.
GetChallenge(c) ==
    /\ run.conn[c].pc = "get_challenge"
    /\ LET call == run.conn[c]
           ch == GetChallengeKey(run.redis, call.id)
       IN  run' = IF ~ch.exists
                  THEN [run EXCEPT !.conn[c] = NoCall,
                                   !.last = Answer(call, "no_challenge", FALSE, call.email)]
                  ELSE IF TooManyAttempts(ch.attempts)
                  THEN [run EXCEPT !.conn[c] = NoCall,
                                   !.last = Answer([call EXCEPT !.ch = ch], "too_many_attempts", FALSE,
                                                   call.email)]
                  ELSE IF call.code # ch.code
                  THEN [run EXCEPT !.conn[c] = [@ EXCEPT !.pc = "exec_set",
                                                         !.ch = [ch EXCEPT !.attempts = @ + 1]]]
                  ELSE [run EXCEPT !.conn[c] = [@ EXCEPT !.pc = "exec_del", !.ch = ch]]
    /\ OtpUnchanged

\* const ttl = await redis.ttl(chKey), whose value only sets the time to
\* live, and MULTI; SET chKey ch EX ttl; EXEC of the wrong-code branch: null
\* when a watched key was touched, and then nothing is written.
ExecSet(c) ==
    /\ run.conn[c].pc = "exec_set"
    /\ LET call == run.conn[c]
       IN  IF call.dirty
           THEN run' = [run EXCEPT !.conn[c] = NoCall,
                                   !.last = Answer(call, "race", FALSE, call.email),
                                   !.wrong[call.id] = @ + 1]
           ELSE run' = [run EXCEPT
                          !.redis = SetChallengeKey(@, call.ch),
                          !.conn = [Touch(@, { keyChallenge(call.id) }) EXCEPT ![c] = NoCall],
                          !.last = Answer(call, "invalid_code", FALSE, call.email),
                          !.wrong[call.id] = @ + 1,
                          !.invalid[call.id] = @ + 1]
    /\ OtpUnchanged

\* MULTI; DEL chKey; DEL emailKey; EXEC of either call.
ExecDel(c) ==
    /\ run.conn[c].pc = "exec_del"
    /\ LET call == run.conn[c]
           email == IF call.token = <<>> THEN call.email ELSE call.ch.email
       IN  IF call.dirty
           THEN run' = [run EXCEPT !.conn[c] = NoCall,
                                   !.last = Answer(call, "race", FALSE, call.email)]
           ELSE run' = [run EXCEPT
                          !.redis = DelEmailKey(DelChallengeKey(@, call.id), email),
                          !.conn = [Touch(@, Deleted(run.redis, call.id, email)) EXCEPT ![c] = NoCall],
                          !.last = Answer(call, "ok", TRUE, email),
                          !.oks[call.id] = @ + 1]
    /\ OtpUnchanged

\* The magic links a client may present: those mailed, which are the links
\* of the challenges that createOtpChallenge has returned, one with a wrong
\* secret and one without a dot.
MailedTokens ==
    { formatMagicToken([id |-> Uuids[i], token |-> s]) : i \in DOMAIN Uuids, s \in TokenSecrets }
ForgedTokens == { << "1", ".", "Z" >>, << "1", "A" >> }

\* The challenges that createOtpChallenge has returned.
Issued == UNION { { run.issued[e][i] : i \in DOMAIN run.issued[e] } : e \in Emails }

\* POST /auth/otp/verify with { token }: consumeOtpChallengeByToken up to
\* await redis.watch(chKey).
VerifyByToken(c, token) ==
    /\ run.conn[c].pc = "idle"
    /\ token # <<>>
    /\ \/ token \in ForgedTokens
       \/ \E id \in Issued, s \in TokenSecrets : token = formatMagicToken([id |-> id, token |-> s])
    /\ LET parts == SplitOnDots(token)
       IN  run' = IF Len(parts) # 2
                  THEN [run EXCEPT !.last = Answer([NoCall EXCEPT !.token = token],
                                                   "bad_token_format", FALSE, Nil)]
                  ELSE [run EXCEPT !.conn[c] =
                            [NoCall EXCEPT !.pc = "token_get", !.token = token,
                                           !.id = PartText(parts[1]),
                                           !.watching = { keyChallenge(PartText(parts[1])) }]]
    /\ OtpUnchanged

\* const raw = await redis.get(chKey); if (tok !== ch.token) invalid_token
TokenGet(c) ==
    /\ run.conn[c].pc = "token_get"
    /\ LET call == run.conn[c]
           ch == GetChallengeKey(run.redis, call.id)
           tok == PartText(SplitOnDots(call.token)[2])
       IN  run' = IF ~ch.exists
                  THEN [run EXCEPT !.conn[c] = NoCall, !.last = Answer(call, "no_challenge", FALSE, Nil)]
                  ELSE IF tok # ch.token
                  THEN [run EXCEPT !.conn[c] = NoCall, !.last = Answer(call, "invalid_token", FALSE, Nil)]
                  ELSE [run EXCEPT !.conn[c] = [@ EXCEPT !.pc = "exec_del", !.ch = ch]]
    /\ OtpUnchanged

\* POST /auth/otp/request: no email or no user answers 200 at once; for a
\* user createOtpChallenge draws id, code and token.
RequestOtp(q, email, code, secret) ==
    /\ run.conn[q].pc = "idle"
    /\ IF email = Nil \/ email \notin UserEmails
       THEN run' = [run EXCEPT !.sent = [result |-> "ok", status |-> 200, matched |-> FALSE]]
       ELSE /\ run.drawn < run.bound.draws
            /\ LET id == Uuids[run.drawn + 1]
               IN  run' = [run EXCEPT
                             !.drawn = @ + 1,
                             !.conn[q] = [NoCall EXCEPT
                                            !.pc = "set_challenge", !.email = email, !.id = id,
                                            !.ch = [exists |-> TRUE, id |-> id, email |-> email,
                                                    code |-> code, token |-> secret, attempts |-> 0]]]
    /\ OtpUnchanged

\* await redis.set(keyChallenge(id), JSON.stringify(challenge), 'EX', ttl)
SetChallenge(q) ==
    /\ run.conn[q].pc = "set_challenge"
    /\ LET call == run.conn[q]
       IN  run' = [run EXCEPT
                     !.redis = SetChallengeKey(@, call.ch),
                     !.conn = [Touch(@, { keyChallenge(call.id) }) EXCEPT
                                 ![q] = [call EXCEPT !.pc = "set_email"]]]
    /\ OtpUnchanged

\* await redis.set(keyEmail(e), id, 'EX', ttl); return challenge; the mail
\* is sent in the background and the handler answers 200 { ok: true }.
SetEmail(q) ==
    /\ run.conn[q].pc = "set_email"
    /\ LET call == run.conn[q]
       IN  run' = [run EXCEPT
                     !.redis = SetEmailKey(@, call.email, call.id),
                     !.conn = [Touch(@, { keyEmail(call.email) }) EXCEPT ![q] = NoCall],
                     !.sent = [result |-> "ok", status |-> 200, matched |-> FALSE],
                     !.issued[call.email] = Append(@, call.id)]
    /\ OtpUnchanged

\* What the client of a handler whose promise rejected sees: an error page,
\* or no answer at all (status 0) when nothing handles the rejection.
RejectedStatus == { 500, 0 }

\* Redis cannot be reached: the command of createOtpChallenge rejects, the
\* handler has try/finally and no catch.
RedisRejects(q, status) ==
    /\ run.conn[q].pc \in { "set_challenge", "set_email" }
    /\ run' = [run EXCEPT !.conn[q] = NoCall,
                          !.sent = [result |-> "rejected", status |-> status, matched |-> FALSE]]
    /\ OtpUnchanged

\* The emails POST /auth/otp/verify is called with.
VerifyEmails == { "a" }

OtpStart(bound) ==
    /\ import_jobs = <<>>
    /\ voters = {}
    /\ platform_events = <<>>
    /\ audit_logs = EmptyBag
    /\ interactions = {}
    /\ walk_lists = {}
    /\ list_members = {}
    /\ voter_merge_alerts = {}
    /\ jobData = <<>>
    /\ queue = {}
    /\ deliveries = <<>>
    /\ run = [redis |-> [email |-> [e \in Emails |-> Nil],
                         challenge |-> [i \in { Uuids[k] : k \in DOMAIN Uuids } |-> NoChallenge]],
              conn |-> [c \in Verifiers \cup Requesters |-> NoCall],
              issued |-> [e \in Emails |-> <<>>],
              oks |-> [i \in { Uuids[k] : k \in DOMAIN Uuids } |-> 0],
              wrong |-> [i \in { Uuids[k] : k \in DOMAIN Uuids } |-> 0],
              invalid |-> [i \in { Uuids[k] : k \in DOMAIN Uuids } |-> 0],
              last |-> NoAnswer, sent |-> NoAnswer, drawn |-> 0, bound |-> bound]

OtpInit == OtpStart([wrong |-> MaxWrongCodes, draws |-> MaxChallenges])
LockoutInit == OtpStart([wrong |-> LockoutWrongCodes, draws |-> LockoutChallenges])

OtpNext ==
    \/ \E c \in Verifiers, email \in VerifyEmails, code \in SubmittedCodes : VerifyByCode(c, email, code)
    \/ \E c \in Verifiers, token \in MailedTokens \cup ForgedTokens : VerifyByToken(c, token)
    \/ \E c \in Verifiers : GetEmail(c)
    \/ \E c \in Verifiers : WatchChallenge(c)
    \/ \E c \in Verifiers : GetChallenge(c)
    \/ \E c \in Verifiers : ExecSet(c)
    \/ \E c \in Verifiers : TokenGet(c)
    \/ \E c \in Verifiers : ExecDel(c)
    \/ \E q \in Requesters, email \in Emails \cup { Nil }, code \in Codes, secret \in TokenSecrets :
          RequestOtp(q, email, code, secret)
    \/ \E q \in Requesters : SetChallenge(q)
    \/ \E q \in Requesters : SetEmail(q)
    \/ \E q \in Requesters, status \in RejectedStatus : RedisRejects(q, status)

OtpSpec == OtpInit /\ [][OtpNext]_vars
LockoutSpec == LockoutInit /\ [][OtpNext]_vars

\* The challenge that createOtpChallenge returned last for the email.
Latest(email) == IF run.issued[email] = <<>> THEN Nil ELSE run.issued[email][Len(run.issued[email])]

\* The code or the magic link of the challenge would be accepted now.
CodeWorks(redis, id) ==
    /\ GetChallengeKey(redis, id).exists
    /\ GetEmailKey(redis, GetChallengeKey(redis, id).email) = id
    /\ ~TooManyAttempts(GetChallengeKey(redis, id).attempts)
TokenWorks(redis, id) == GetChallengeKey(redis, id).exists

\* The step is a call returning ok: true for the challenge.
Consumes(id) == run'.oks[id] = run.oks[id] + 1

\* C33: a call returns ok: true only for the challenge that
\* createOtpChallenge returned last for its email (an earlier challenge of
\* the email is consumed neither by code nor by magic link), and a call that
\* consumes one challenge leaves code and magic link of every other
\* challenge working or not working as before.
C33_OneActiveChallengePerEmail ==
    [][\A id \in DOMAIN run.oks :
          Consumes(id) =>
              /\ \E e \in Emails : Latest(e) = id
              /\ \A other \in DOMAIN run.oks \ { id } :
                    /\ CodeWorks(run'.redis, other) = CodeWorks(run.redis, other)
                    /\ TokenWorks(run'.redis, other) = TokenWorks(run.redis, other)]_vars

\* C34: every answer of POST /api/v1/auth/otp/request is 200 { ok: true },
\* for the email of a user as for any other email, so that the answer does
\* not tell whether the account exists.
C34_RequestAnswerIsUniform ==
    run.sent # NoAnswer => (run.sent.result = "ok" /\ run.sent.status = 200)

\* C35: whatever the interleaving of the verify requests, by code and by
\* magic link, at most one call returns ok: true for a challenge.
C35_ConsumedAtMostOnce == \A id \in DOMAIN run.oks : run.oks[id] <= 1

\* One challenge was created, one call consumed it and a concurrent call for
\* it, with the right code or link, lost the race.
C35_Witness ==
    /\ run.drawn = 1
    /\ run.oks["1"] = 1
    /\ run.last.result = "race"
    /\ run.last.matched
    /\ \A id \in DOMAIN run.wrong : run.wrong[id] = 0

\* The step is the call of consumeOtpChallengeByCode on connection c
\* returning ok: true for the challenge.
OkByCode(c, id) ==
    /\ run.conn[c].pc = "exec_del"
    /\ run.conn[c].token = <<>>
    /\ run.conn[c].id = id
    /\ run'.conn[c].pc = "idle"
    /\ Consumes(id)

\* C36 as stated: a call of consumeOtpChallengeByCode that began after five
\* wrong codes had been submitted for a challenge, one after another or at
\* the same time, does not return ok: true for it.
C36_FiveWrongCodesLock ==
    [][\A c \in Verifiers, id \in DOMAIN run.oks :
          OkByCode(c, id) => id \notin run.conn[c].after]_vars

\* C36: the attempts of a stored challenge are the wrong codes answered
\* invalid_code, at most five, and once five were answered no call of
\* consumeOtpChallengeByCode returns ok: true for the challenge; a wrong code
\* whose transaction is aborted is answered race and is not counted.
C36_FiveCountedCodesLock ==
    [][\A id \in DOMAIN run.oks :
          /\ run'.invalid[id] <= MaxAttempts
          /\ GetChallengeKey(run'.redis, id).exists
                => GetChallengeKey(run'.redis, id).attempts = run'.invalid[id]
          /\ \A c \in Verifiers : OkByCode(c, id) => run.invalid[id] < MaxAttempts]_vars

\* Five wrong codes were counted and the call with the right code that came
\* next was refused.
C36_Witness ==
    \E id \in DOMAIN run.invalid :
        /\ run.invalid[id] = MaxAttempts
        /\ run.last.result = "too_many_attempts"
        /\ run.last.matched

---------------------------------------------------------------------------
(***************************************************************************)
(* Merge alerts, import upserts and the frame of a merge.                  *)
(***************************************************************************)

\* The voter of the tenant with the id has the source.
VoterOfSource(id, orgId, source) ==
    \E v \in voters : v.id = id /\ v.org_id = orgId /\ v.source = source

\* C37: in every state reached by creating and patching voters, importing
\* and merging, every merge alert pairs a lead of source 'manual' with a
\* voter of source 'import', both rows of the alert's tenant.
C37_AlertPairsLeadWithImport ==
    \A a \in voter_merge_alerts :
        /\ VoterOfSource(a.lead_voter_id, a.org_id, "manual")
        /\ VoterOfSource(a.imported_voter_id, a.org_id, "import")

\* An alert of a lead that has since been merged into the imported voter.
C37_Witness ==
    \E a \in voter_merge_alerts : \E l \in voters :
        /\ l.id = a.lead_voter_id
        /\ l.merged_into_voter_id = a.imported_voter_id
        /\ a.status = "resolved"

\* Manual entries that give a voter the external id of a registered voter:
\* the body of a POST /voters and of a PATCH /voters/:id.
EntriesWithExternalId == { [firstName |-> <<"L", "E", "E">>, externalId |-> A1] }

\* In db every voter of the tenant that carries the external id of an
\* importable row of body is an imported voter that is merged into nothing.
UpsertedAreImports(db, orgId, body) ==
    \A i \in DOMAIN Importable(body) : \A u \in db.voters :
        (u.org_id = orgId /\ u.external_id = ExternalIdOf(Importable(body)[i]))
            => (u.source = "import" /\ u.merged_into_voter_id = NoVoter)

\* C38: after an import job has upserted a row with external id E for tenant
\* T, the voter (T, E) has source 'import' and no mergedIntoVoterId,
\* whatever POST /voters or PATCH /voters/:id came before the import.
C38_UpsertedVoterIsImport ==
    \A ctx \in AdminContexts, v \in EntriesWithExternalId, body \in VoterFiles :
        /\ \A created \in { CreateVoterReply(DB, ctx, v).db } :
              UpsertedAreImports(Reimport(created, ctx, body, "r0", "r0"), ctx.orgId, body)
        /\ \A id \in VoterIds :
              \A patched \in { UpdateVoterReply(DB, ctx, id, v).db } :
                  UpsertedAreImports(Reimport(patched, ctx, body, "r0", "r0"), ctx.orgId, body)

\* C39: a successful merge of a lead into a target leaves as they were the
\* alerts of every other pair, open alerts of the same lead or the same
\* target among them, the resolved and dismissed alerts of the pair, every
\* field of the target and of every third voter, every field of the lead but
\* merged_into_voter_id, the interactions and list memberships that referenced
\* other voters, and the lists; it adds and removes no row of these tables.
C39_MergeFrame ==
    \A ctx \in Contexts, req \in MergeRequests :
        LET out == MergeReply(DB, ctx, req[1], req[2], 0)
            l == Uuid(req[1])
            t == Uuid(req[2])
        IN  Succeeded(out) =>
              /\ \A a \in voter_merge_alerts :
                    ~(/\ a.org_id = ctx.orgId /\ a.lead_voter_id = l
                      /\ a.imported_voter_id = t /\ a.status = "open")
                        => a \in out.db.alerts
              /\ Cardinality(out.db.alerts) = Cardinality(voter_merge_alerts)
              /\ \A v \in voters : v.id # l => v \in out.db.voters
              /\ \E u \in out.db.voters :
                    [u EXCEPT !.merged_into_voter_id = VoterOf(l).merged_into_voter_id] = VoterOf(l)
              /\ Cardinality(out.db.voters) = Cardinality(voters)
              /\ \A i \in interactions :
                    ~(i.org_id = ctx.orgId /\ i.voter_id = l) => i \in out.db.interactions
              /\ Cardinality(out.db.interactions) = Cardinality(interactions)
              /\ \A m \in list_members :
                    ~(m.org_id = ctx.orgId /\ m.voter_id = l) => m \in out.db.list_members
              /\ Cardinality(out.db.list_members) = Cardinality(list_members)
              /\ out.db.walk_lists = walk_lists

\* A lead has been merged into one of two imported voters that its phone
\* matched: the pair's alert is resolved and the lead's alert with the other
\* imported voter is still open.
C39_Witness ==
    \E l \in voters, a \in voter_merge_alerts, b \in voter_merge_alerts :
        /\ l.merged_into_voter_id # NoVoter
        /\ a.lead_voter_id = l.id /\ a.imported_voter_id = l.merged_into_voter_id
        /\ a.status = "resolved"
        /\ b.lead_voter_id = l.id /\ b.imported_voter_id # l.merged_into_voter_id
        /\ b.status = "open"

---------------------------------------------------------------------------
(***************************************************************************)
(* POST /api/v1/interactions/bulk: one multi-row INSERT ... ON CONFLICT DO *)
(* NOTHING RETURNING and one INSERT of survey responses in a transaction.  *)
(* Each awaited statement is one step; the multi-row INSERT waits while    *)
(* another open transaction holds one of its keys.                         *)
(***************************************************************************)

\* Items of one request and requests in flight.
MaxBatch == 2
Batches == { "b1", "b2" }

\* Items: a contact with survey answers, an item repeating its
\* client_interaction_uuid, a second contact, an item naming no voter of the
\* store, and an item without client_interaction_uuid.
BatchItems ==
    { [client_interaction_uuid |-> "c1", voter_id |-> 1, result_code |-> "contacted",
       notes |-> <<"1">>, survey_responses |-> <<"Y">>],
      [client_interaction_uuid |-> "c1", voter_id |-> 2, result_code |-> "refused",
       notes |-> <<"2">>, survey_responses |-> <<"N">>],
      [client_interaction_uuid |-> "c2", voter_id |-> 2, result_code |-> "not_home",
       notes |-> Null, survey_responses |-> Null],
      [client_interaction_uuid |-> "c3", voter_id |-> 9, result_code |-> "contacted",
       notes |-> Null, survey_responses |-> Null],
      [client_interaction_uuid |-> "", voter_id |-> 1, result_code |-> "contacted",
       notes |-> Null, survey_responses |-> Null] }

BatchBodies == UNION { [1..n -> BatchItems] : n \in 0..MaxBatch }

\* A request not yet sent; returned holds the RETURNING rows of the insert,
\* submitted the length of the array once the request has ended.
NoBatch ==
    [pc |-> "idle", conn |-> Idle, ctx |-> CHOOSE c \in RetryContexts : TRUE, items |-> <<>>,
     returned |-> <<>>, submitted |-> 0, status |-> 0, inserted_count |-> 0,
     duplicate_count |-> 0, threw |-> Null]

\* The first item the validation loop rejects (0: none).
FirstInvalidItem(items) ==
    LET bad == { idx \in DOMAIN items :
                    \/ items[idx].client_interaction_uuid = ""
                    \/ items[idx].voter_id = 0
                    \/ items[idx].result_code = "" }
    IN  IF bad = {} THEN 0 ELSE CHOOSE idx \in bad : \A k \in bad : idx <= k

BatchUnchanged ==
    UNCHANGED << import_jobs, voters, platform_events, audit_logs, interactions, walk_lists,
                 list_members, voter_merge_alerts, jobData, queue, deliveries >>

\* The request arrives: an empty array answers 200 with zero counts, an
\* invalid item answers 400; else pool.connect() and BEGIN.
PostBulk(q, ctx, items) ==
    /\ run[q].pc = "idle"
    /\ run' = [run EXCEPT ![q] =
          IF Len(items) = 0
          THEN [NoBatch EXCEPT !.pc = "done", !.ctx = ctx, !.status = 200]
          ELSE IF FirstInvalidItem(items) # 0
          THEN [NoBatch EXCEPT !.pc = "done", !.ctx = ctx, !.submitted = Len(items),
                               !.status = 400]
          ELSE [NoBatch EXCEPT !.pc = "insert", !.ctx = ctx, !.items = items,
                               !.conn = Begin(Session(DB, Idle)).conn]]
    /\ BatchUnchanged

\* The VALUES row of an item (occurred_at, channel, assignment_id left out).
BatchRow(ctx, it, id) ==
    [id |-> id, org_id |-> ctx.orgId, user_id |-> ctx.userId, voter_id |-> it.voter_id,
     result_code |-> it.result_code, notes |-> it.notes,
     client_interaction_uuid |-> it.client_interaction_uuid, survey_responses |-> Null]

RECURSIVE InsertItems(_, _, _, _, _)
\* The multi-row INSERT, row by row in the order of VALUES: a row whose key
\* is taken, by the store or by an earlier row of the statement, is skipped;
\* an error of one row fails the statement.
InsertItems(sess, ctx, items, id, returned) ==
    IF items = <<>> THEN [sess |-> sess, returned |-> returned, error |-> Null]
    ELSE LET st == [op |-> "insert_interaction", row |-> BatchRow(ctx, Head(items), id)]
         IN  IF StmtError(View(sess), st) # Null
             THEN [sess |-> sess, returned |-> returned, error |-> StmtError(View(sess), st)]
             ELSE IF RowCount(View(sess), st) = 1
             THEN InsertItems(Exec(sess, st), ctx, Tail(items), id + 1,
                              Append(returned,
                                     [id |-> id,
                                      client_interaction_uuid |-> st.row.client_interaction_uuid]))
             ELSE InsertItems(sess, ctx, Tail(items), id + 1, returned)

\* The requests whose open transaction holds a key of q's items.
BulkWaitsFor(q) ==
    { u \in DOMAIN run \ { q } :
        \E i \in PendingInteractions(u), k \in DOMAIN run[q].items :
            /\ i.org_id = run[q].ctx.orgId
            /\ i.client_interaction_uuid = run[q].items[k].client_interaction_uuid }

\* INSERT INTO interactions ... VALUES ... ON CONFLICT DO NOTHING RETURNING
\* id, client_interaction_uuid; on an error ROLLBACK and throw.
StepBulkInsert(q) ==
    LET r == run[q]
    IN  /\ r.pc = "insert"
        /\ BulkWaitsFor(q) = {}
        /\ \E out \in { InsertItems(Session(DB, r.conn), r.ctx, r.items, RandomInteractionId, <<>>) } :
              run' = [run EXCEPT ![q] =
                        IF out.error # Null
                        THEN [NoBatch EXCEPT !.pc = "done", !.ctx = r.ctx,
                                             !.submitted = Len(r.items), !.threw = out.error]
                        ELSE [r EXCEPT !.pc = "survey", !.conn = out.sess.conn,
                                       !.returned = out.returned]]
        /\ BatchUnchanged

\* items.find(x => x.client_interaction_uuid === row.client_interaction_uuid)
FindItem(items, uuid) ==
    items[CHOOSE k \in DOMAIN items :
              /\ items[k].client_interaction_uuid = uuid
              /\ \A j \in 1..(k - 1) : items[j].client_interaction_uuid # uuid]

RECURSIVE SurveyStmts(_, _, _)
\* The rows of the survey INSERT: one for each returned interaction whose
\* item carries survey_responses.
SurveyStmts(ctx, items, returned) ==
    IF returned = <<>> THEN <<>>
    ELSE LET src == FindItem(items, Head(returned).client_interaction_uuid)
         IN  (IF src.survey_responses # Null
              THEN << [op |-> "insert_survey_responses", org_id |-> ctx.orgId,
                       interaction_id |-> Head(returned).id,
                       responses |-> src.survey_responses] >>
              ELSE <<>>) \o SurveyStmts(ctx, items, Tail(returned))

\* INSERT INTO survey_responses ... ON CONFLICT DO NOTHING, if there is a row.
StepBulkSurvey(q) ==
    LET r == run[q]
    IN  /\ r.pc = "survey"
        /\ run' = [run EXCEPT ![q] =
              [r EXCEPT !.pc = "commit",
                        !.conn = ExecAll(Session(DB, r.conn),
                                         SurveyStmts(r.ctx, r.items, r.returned)).conn]]
        /\ BatchUnchanged

\* COMMIT and the answer: inserted_count = insertedRows.rows.length,
\* duplicate_count = items.length - inserted_count.
StepBulkCommit(q) ==
    LET r == run[q]
    IN  /\ r.pc = "commit"
        /\ Store(Commit(Session(DB, r.conn)).db)
        /\ run' = [run EXCEPT ![q] =
              [NoBatch EXCEPT !.pc = "done", !.ctx = r.ctx, !.submitted = Len(r.items),
                              !.status = 200, !.inserted_count = Len(r.returned),
                              !.duplicate_count = Len(r.items) - Len(r.returned)]]
        /\ UNCHANGED << jobData, queue, deliveries >>

\* A query between BEGIN and COMMIT is rejected by the store: catch, ROLLBACK,
\* throw.
AbortBulk(q) ==
    /\ run[q].pc \in { "insert", "survey", "commit" }
    /\ run' = [run EXCEPT ![q] = [NoBatch EXCEPT !.pc = "done", !.ctx = run[q].ctx,
                                                   !.submitted = Len(run[q].items),
                                                   !.threw = StoreUnavailable]]
    /\ BatchUnchanged

\* Tenant o1 has imported two voters; no request has been sent.
BatchInit ==
    LET ctx == CHOOSE c \in ImportContexts : c.orgId = "o1"
        empty == [jobs |-> <<>>, voters |-> {}, events |-> <<>>, audit_logs |-> EmptyBag,
                  interactions |-> {}, walk_lists |-> {}, list_members |-> {}, alerts |-> {}]
    IN  \E db \in { Reimport(empty, ctx, << RowFull, RowTwin >>, "r0", "r0") } :
            /\ import_jobs = db.jobs
            /\ voters = db.voters
            /\ platform_events = db.events
            /\ audit_logs = db.audit_logs
            /\ interactions = db.interactions
            /\ walk_lists = db.walk_lists
            /\ list_members = db.list_members
            /\ voter_merge_alerts = db.alerts
            /\ jobData = (1 :> JobPayload(1, ctx, << RowFull, RowTwin >>))
            /\ queue = {}
            /\ deliveries = (1 :> 1)
            /\ run = [q \in Batches |-> NoBatch]

BatchNext ==
    \/ \E q \in Batches, ctx \in RetryContexts, items \in BatchBodies : PostBulk(q, ctx, items)
    \/ \E q \in Batches : StepBulkInsert(q)
    \/ \E q \in Batches : StepBulkSurvey(q)
    \/ \E q \in Batches : StepBulkCommit(q)
    \/ \E q \in Batches : AbortBulk(q)

BatchSpec == BatchInit /\ [][BatchNext]_vars

\* The step ends request q.
Ends(q) == run[q].pc # "done" /\ run'[q].pc = "done"

\* C40: a bulk request answered 200 reports inserted_count + duplicate_count
\* = the number of items and inserted_count = the number of interaction rows
\* its commit added; the rows there were stay as they were, survey responses
\* included, so that an item whose client_interaction_uuid the tenant had, or
\* that repeats an earlier item, adds nothing and survey responses go to new
\* rows only; no tenant has two rows of one client_interaction_uuid; and a
\* request that ends otherwise (an invalid item, a failed insert) adds
\* nothing.
C40_BulkCountsMatchRows ==
    [][\A q \in Batches :
          Ends(q) =>
              IF run'[q].status = 200
              THEN /\ run'[q].inserted_count + run'[q].duplicate_count = run'[q].submitted
                   /\ run[q].pc # "idle" => run'[q].submitted = Len(run[q].items)
                   /\ run'[q].inserted_count = Cardinality(interactions' \ interactions)
                   /\ interactions \subseteq interactions'
                   /\ \A i \in interactions' \ interactions :
                         /\ i.org_id = run'[q].ctx.orgId
                         /\ \E k \in DOMAIN run[q].items :
                               i.client_interaction_uuid = run[q].items[k].client_interaction_uuid
                   /\ \A i \in interactions', j \in interactions' :
                         (i.org_id = j.org_id
                          /\ i.client_interaction_uuid = j.client_interaction_uuid) => i = j
              ELSE interactions' = interactions]_vars

\* A request of two items was answered with one inserted and one duplicate,
\* and the inserted interaction has its survey responses.
C40_Witness ==
    \E q \in Batches :
        /\ run[q].pc = "done"
        /\ run[q].status = 200
        /\ run[q].inserted_count = 1
        /\ run[q].duplicate_count = 1
        /\ \E i \in interactions :
              /\ i.org_id = run[q].ctx.orgId
              /\ i.survey_responses # Null

===========================================================================
